---- MODULE Spec2Model ----
(***************************************************************************)
(* A model of the PubMed HTML -> markdown converter                        *)
(* (pubmed_downloader/markdown_from_html.py) and of the HTTP API that      *)
(* drives it (api.py).                                                     *)
(*                                                                         *)
(* Strings are sequences of atoms.  An atom is one character of source     *)
(* text ("a", "1", "|", " ", "\n", ...) or one word of a literal the code  *)
(* writes ("Category", "Value", "---").  Whitespace, pipes, digits and     *)
(* newlines are always atoms of their own, so every test the code makes on *)
(* characters is made on atoms here.                                       *)
(*                                                                         *)
(* A parsed document (the BeautifulSoup tree) is the sequence of its nodes *)
(* in document order, each with its depth: the descendants of node i are   *)
(* the nodes that follow it while the depth stays above depth(i).          *)
(***************************************************************************)
EXTENDS Integers, Sequences, FiniteSets, TLC

None == "None"

\* ------------------------------------------------------------------ text

Whitespace == {" ", "\n", "\t"}
Digits == {"0", "1", "2", "3", "4", "5", "6", "7", "8", "9"}

RECURSIVE Concat(_)
\* "".join(parts): the strings of a sequence, one after the other.
Concat(parts) ==
    IF parts = <<>> THEN <<>> ELSE Head(parts) \o Concat(Tail(parts))

RECURSIVE Join(_, _)
\* sep.join(parts)
Join(sep, parts) ==
    IF parts = <<>> THEN <<>>
    ELSE IF Len(parts) = 1 THEN parts[1]
    ELSE parts[1] \o sep \o Join(sep, Tail(parts))

RECURSIVE LStrip(_)
LStrip(s) ==
    IF s # <<>> /\ Head(s) \in Whitespace THEN LStrip(Tail(s)) ELSE s

RECURSIVE RStrip(_)
RStrip(s) ==
    IF s # <<>> /\ s[Len(s)] \in Whitespace
    THEN RStrip(SubSeq(s, 1, Len(s) - 1)) ELSE s

\* str.strip()
Strip(s) == LStrip(RStrip(s))

RECURSIVE ReplaceAtom(_, _, _)
\* str.replace(old, new) for a one-character old
ReplaceAtom(s, old, new) ==
    IF s = <<>> THEN <<>>
    ELSE (IF Head(s) = old THEN new ELSE <<Head(s)>>)
         \o ReplaceAtom(Tail(s), old, new)

RECURSIVE CollapseWs(_)
\* re.sub(r"\s+", " ", text)
CollapseWs(s) ==
    IF s = <<>> THEN <<>>
    ELSE IF Head(s) \in Whitespace
         THEN <<" ">> \o CollapseWs(LStrip(s))
         ELSE <<Head(s)>> \o CollapseWs(Tail(s))

IsPrefix(p, s) == Len(p) <= Len(s) /\ SubSeq(s, 1, Len(p)) = p

RECURSIVE ReplaceAll(_, _, _)
\* str.replace(old, new), old a non-empty string
ReplaceAll(s, old, new) ==
    IF s = <<>> THEN <<>>
    ELSE IF IsPrefix(old, s)
         THEN new \o ReplaceAll(SubSeq(s, Len(old) + 1, Len(s)), old, new)
         ELSE <<Head(s)>> \o ReplaceAll(Tail(s), old, new)

\* html.unescape on the named entities the alphabet can spell; it scans
\* once, so "&amp;" is decoded last and its "&" never starts a new entity.
unescape(s) ==
    ReplaceAll(
        ReplaceAll(
            ReplaceAll(s, <<"&", "l", "t", ";">>, <<"<">>),
            <<"&", "g", "t", ";">>, <<">">>),
        <<"&", "a", "m", "p", ";">>, <<"&">>)

\* _clean_text
clean_text(text) ==
    IF text = <<>> THEN <<>> ELSE Strip(CollapseWs(unescape(text)))

\* str.isdigit(): not empty and every character a digit
isdigit(s) == s # <<>> /\ \A i \in 1..Len(s) : s[i] \in Digits

Digit(i) == CASE i = 0 -> "0" [] i = 1 -> "1" [] i = 2 -> "2" [] i = 3 -> "3"
              [] i = 4 -> "4" [] i = 5 -> "5" [] i = 6 -> "6" [] i = 7 -> "7"
              [] i = 8 -> "8" [] i = 9 -> "9"

RECURSIVE str(_)
\* str(i) of a natural number
str(i) == IF i < 10 THEN <<Digit(i)>> ELSE str(i \div 10) \o <<Digit(i % 10)>>

\* What a call that may raise gives: a value, or an exception
Ok(v) == [raised |-> FALSE, v |-> v]
ValueError == [raised |-> TRUE]

DigitValue(c) == CHOOSE v \in 0..9 : Digit(v) = c

RECURSIVE ParseNat(_, _)
ParseNat(s, acc) ==
    IF s = <<>> THEN acc ELSE ParseNat(Tail(s), 10 * acc + DigitValue(Head(s)))

\* int(x) of an attribute string: surrounding whitespace and one sign are
\* accepted, then digits only; anything else raises ValueError.
int(x) ==
    LET t == Strip(x)
        neg == t # <<>> /\ Head(t) = "-"
        u == IF t # <<>> /\ Head(t) \in {"-", "+"} THEN Tail(t) ELSE t
    IN  IF isdigit(u)
        THEN Ok(IF neg THEN 0 - ParseNat(u, 0) ELSE ParseNat(u, 0))
        ELSE ValueError

\* F(x), x computed once before F uses it
With(x, F(_)) == CHOOSE y \in {F(v) : v \in {x}} : TRUE

\* [x] * n
RECURSIVE Repeat(_, _)
Repeat(x, n) == IF n <= 0 THEN <<>> ELSE <<x>> \o Repeat(x, n - 1)

Max(a, b) == IF a >= b THEN a ELSE b

\* The members of a set of indexes between lo and hi, in increasing order
InOrder(lo, hi, S) ==
    LET member(j) == j \in S
    IN  SelectSeq([k \in 1..(hi - lo + 1) |-> lo + k - 1], member)

\* ------------------------------------------------------- the parsed tree

\* A node: an element with its class list (a set) and its other attributes
\* (a function from names to strings), or a text node (tag "#text").
Elem(depth, tag, class, attrs) ==
    [depth |-> depth, tag |-> tag, class |-> class, attrs |-> attrs,
     text |-> <<>>]
Text(depth, text) ==
    [depth |-> depth, tag |-> "#text", class |-> {}, attrs |-> <<>>,
     text |-> text]
NoAttrs == <<>>

IsTag(d, i) == d[i].tag # "#text"

\* Tag.get(name, default)
get(d, i, name, default) ==
    IF name \in DOMAIN d[i].attrs THEN d[i].attrs[name] ELSE default

\* The last node of the subtree of node i
RECURSIVE SubtreeEnd(_, _, _)
SubtreeEnd(d, i, j) ==
    IF j < Len(d) /\ d[j + 1].depth > d[i].depth
    THEN SubtreeEnd(d, i, j + 1) ELSE j

\* Tag.descendants, in document order
descendants(d, i) == InOrder(i + 1, SubtreeEnd(d, i, i), DOMAIN d)

\* Tag.children / Tag.contents
children(d, i) ==
    InOrder(i + 1, SubtreeEnd(d, i, i),
            {j \in DOMAIN d : d[j].depth = d[i].depth + 1})

\* Tag.find_all(...) below node i (i = 0: soup.find_all, the whole document);
\* S is the set of the nodes that match the filter.
find_all(d, i, S) ==
    IF i = 0 THEN InOrder(1, Len(d), S)
    ELSE InOrder(i + 1, SubtreeEnd(d, i, i), S)

\* Tag.find(...): the first match, or 0 for None
find(d, i, S) ==
    LET all == find_all(d, i, S) IN IF all = <<>> THEN 0 ELSE all[1]

\* The nodes with one of the given tag names
Named(d, tags) == {j \in DOMAIN d : d[j].tag \in tags}

\* Tag.get_text(): the text nodes of the subtree, concatenated
get_text(d, i) ==
    IF ~IsTag(d, i) THEN d[i].text
    ELSE LET ts == find_all(d, i, Named(d, {"#text"}))
         IN  Concat([k \in 1..Len(ts) |-> d[ts[k]].text])

\* c in tag.get("class", [])
HasClass(d, i, c) == IsTag(d, i) /\ c \in d[i].class

\* ----------------------------------------------- _convert_table_to_markdown

\* empty_cell without the substitution
empty_cell_kept(text) == text

\* "Handle empty cells": an empty text becomes one space
empty_cell(text) == IF text = <<>> THEN <<" ">> ELSE text

\* "Escape pipe characters and clean up text"
escape_cell(text) ==
    ReplaceAtom(ReplaceAtom(text, "|", <<"\\", "|">>), "\n", <<" ">>)

\* colspan_cells with range(colspan) for range(colspan - 1)
colspan_cells_extra(text, colspan) == <<text>> \o Repeat(<<>>, colspan)

\* row_data.append(text), then one "" for each of range(colspan - 1)
colspan_cells(text, colspan) == <<text>> \o Repeat(<<>>, colspan - 1)

\* The grid cells one source cell adds to row_data, or ValueError when
\* int(cell.get("colspan", 1)) raises.
cell_data(d, c) ==
    LET colspan == IF "colspan" \in DOMAIN d[c].attrs
                   THEN int(d[c].attrs["colspan"]) ELSE Ok(1)
        text == empty_cell(escape_cell(Strip(clean_text(get_text(d, c)))))
    IN  IF colspan.raised THEN ValueError
        ELSE Ok(colspan_cells(text, colspan.v))

\* row_data of one tr: the cells of row.find_all(["th", "td"]), expanded
row_data(d, r) ==
    LET cells == find_all(d, r, Named(d, {"th", "td"}))
        datas == [k \in 1..Len(cells) |-> cell_data(d, cells[k])]
    IN  IF \E k \in 1..Len(cells) : datas[k].raised THEN ValueError
        ELSE Ok(Concat([k \in 1..Len(cells) |-> datas[k].v]))

\* thead = table_tag.find("thead"); header_rows = thead.find_all("tr")
header_rows(d, t) ==
    LET thead == find(d, t, Named(d, {"thead"}))
    IN  IF thead # 0 THEN find_all(d, thead, Named(d, {"tr"})) ELSE <<>>

\* tbody.find_all("tr"), or every tr of the table after the header rows
body_rows(d, t) ==
    LET tbody == find(d, t, Named(d, {"tbody"}))
        all == find_all(d, t, Named(d, {"tr"}))
        nh == Len(header_rows(d, t))
    IN  IF tbody # 0 THEN find_all(d, tbody, Named(d, {"tr"}))
        ELSE IF nh > 0 THEN SubSeq(all, nh + 1, Len(all))
        ELSE all

\* The tr elements collected, header rows first
collected_rows(d, t) == header_rows(d, t) \o body_rows(d, t)

RECURSIVE MaxLen(_)
\* max_cols = max(max_cols, len(row_data)) over the rows
MaxLen(rows) ==
    IF rows = <<>> THEN 0 ELSE Max(Len(Head(rows)), MaxLen(Tail(rows)))

\* pad_row without the normalisation loop
pad_row_none(row, n) == row

\* while len(row) < n: row.append("")
pad_row(row, n) == row \o Repeat(<<>>, n - Len(row))

\* looks_numeric without the two replace calls
looks_numeric_plain(cell) == isdigit(cell)

\* cell.replace(".", "").replace("-", "").isdigit()
looks_numeric(cell) ==
    isdigit(ReplaceAtom(ReplaceAtom(cell, ".", <<>>), "-", <<>>))

\* "first row looks like headers (contains non-numeric text)"
looks_like_header(first_row) ==
    \E k \in 1..Len(first_row) :
        ~looks_numeric(first_row[k]) /\ Strip(first_row[k]) # <<>>

\* has_proper_header = thead and header_rows
has_proper_header(d, t) ==
    find(d, t, Named(d, {"thead"})) # 0 /\ header_rows(d, t) # <<>>

\* "Category", "Value 1", "Value 2", ... for range(max_cols)
generic_header(n) ==
    [i \in 1..n |-> IF i = 1 THEN <<"Category">>
                    ELSE <<"Value", " ">> \o str(i - 1)]

\* "| " + " | ".join(row) + " |"
table_line(row) == <<"|", " ">> \o Join(<<" ", "|", " ">>, row) \o <<" ", "|">>

Min(a, b) == IF a <= b THEN a ELSE b

\* row[: len(header)] after "while len(row) < len(header): row.append("")"
fit_row(row, n) ==
    LET padded == pad_row(row, n) IN SubSeq(padded, 1, Min(n, Len(padded)))

\* "Process header" and "Process body": the row_data of every collected
\* tr, or ValueError when int() raised on a colspan
collect_rows(d, t) ==
    LET trs == collected_rows(d, t)
        datas == [k \in 1..Len(trs) |-> row_data(d, trs[k])]
    IN  IF \E k \in 1..Len(trs) : datas[k].raised THEN ValueError
        ELSE Ok([k \in 1..Len(trs) |-> datas[k].v])

\* "Normalize all rows to have same number of columns"
normalize_rows(raw, max_cols) ==
    [k \in 1..Len(raw) |-> pad_row(raw[k], max_cols)]

\* How the header is chosen: the first row of a thead, the first row
\* promoted, or generic labels ("none": no rows, the function returns "")
header_kind(rows, proper) ==
    IF rows = <<>> THEN "none"
    ELSE IF proper THEN "explicit"
    ELSE IF looks_like_header(rows[1]) THEN "promoted"
    ELSE "generic"

\* header
select_header(rows, max_cols, kind) ==
    IF kind = "none" THEN <<>>
    ELSE IF kind = "generic" THEN generic_header(max_cols)
    ELSE rows[1]

\* data_rows
select_data_rows(rows, kind) ==
    IF kind \in {"explicit", "promoted"} THEN Tail(rows) ELSE rows

\* The rows as emitted: each row[: len(header)]
emitted_rows(data_rows, header) ==
    [k \in 1..Len(data_rows) |-> fit_row(data_rows[k], Len(header))]

\* lines: header row, separator row, data rows
table_lines(header, separator_cols, emitted) ==
    <<table_line(header), table_line(separator_cols)>>
    \o [k \in 1..Len(emitted) |-> table_line(emitted[k])]

\* The locals at the return, from header and data_rows on
table_emit(raw, max_cols, rows, kind, header, data_rows) ==
    [raised |-> FALSE, row_data |-> raw, max_cols |-> max_cols,
     rows |-> rows, kind |-> kind, header |-> header,
     separator_cols |-> Repeat(<<"---">>, Len(header)),
     emitted |-> emitted_rows(data_rows, header),
     lines |-> IF kind = "none" THEN <<>>
               ELSE table_lines(header, Repeat(<<"---">>, Len(header)),
                                emitted_rows(data_rows, header))]

\* The locals at the return, from the padded rows on
table_select(raw, max_cols, rows, kind) ==
    table_emit(raw, max_cols, rows, kind,
               select_header(rows, max_cols, kind),
               select_data_rows(rows, kind))

\* The locals at the return, from the collected row_data on
table_render(raw, max_cols, proper) ==
    table_select(raw, max_cols, normalize_rows(raw, max_cols),
                 header_kind(normalize_rows(raw, max_cols), proper))

\* The local variables of _convert_table_to_markdown(table_tag) at its
\* return; raised when int() raised.
table_locals(d, t) ==
    IF collect_rows(d, t).raised THEN ValueError
    ELSE table_render(collect_rows(d, t).v, MaxLen(collect_rows(d, t).v),
                      has_proper_header(d, t))

\* _convert_table_to_markdown(table_tag): the markdown, or the exception
convert_table_to_markdown(d, t) ==
    With(table_locals(d, t),
         LAMBDA loc : IF loc.raised THEN ValueError
                      ELSE Ok(Join(<<"\n">>, loc.lines)))

\* ----------------------------------------------------- _process_paragraph

RECURSIVE process_element(_, _)
\* process_element(element): the markdown of one inline node
process_element(d, e) ==
    IF ~IsTag(d, e) THEN d[e].text
    ELSE IF d[e].tag \in {"em", "i"} THEN <<"*">> \o get_text(d, e) \o <<"*">>
    ELSE IF d[e].tag \in {"strong", "b"}
         THEN <<"*", "*">> \o get_text(d, e) \o <<"*", "*">>
    ELSE IF d[e].tag = "sub" THEN <<"_">> \o get_text(d, e) \o <<"_">>
    ELSE IF d[e].tag = "sup" THEN <<"^">> \o get_text(d, e) \o <<"^">>
    ELSE IF d[e].tag = "a"
         THEN IF get(d, e, "href", <<>>) # <<>>
              THEN <<"[">> \o Strip(get_text(d, e)) \o <<"]", "(">>
                   \o get(d, e, "href", <<>>) \o <<")">>
              ELSE Strip(get_text(d, e))
    ELSE LET kids == children(d, e)
         IN  Concat([k \in 1..Len(kids) |-> process_element(d, kids[k])])

\* _process_paragraph(p_tag)
process_paragraph(d, p) ==
    LET kids == children(d, p)
    IN  clean_text(Concat([k \in 1..Len(kids) |-> process_element(d, kids[k])]))

\* -------------------------------------------- _process_table, _process_figure

\* The elements with one of the tag names and the class
NamedClass(d, tags, c) == {j \in DOMAIN d : d[j].tag \in tags /\ c \in d[j].class}

RECURSIVE TableNumber(_)
\* re.search(r"Table\s+(\d+)", title, re.IGNORECASE): the digits of the
\* first match, or <<>>.  The word "Table" is one atom of a title.
TableNumber(title) ==
    IF Len(title) < 3 THEN <<>>
    ELSE LET rest == LStrip(Tail(title))
             n == IF rest = <<>> \/ Head(rest) \notin Digits THEN 0
                  ELSE CHOOSE k \in 1..Len(rest) :
                         /\ \A i \in 1..k : rest[i] \in Digits
                         /\ (k = Len(rest) \/ rest[k + 1] \notin Digits)
         IN  IF Head(title) \in {"Table", "table", "TABLE"}
                /\ title[2] \in Whitespace /\ n > 0
             THEN SubSeq(rest, 1, n)
             ELSE TableNumber(Tail(title))

\* The caption lines of _process_table: a blank line, the caption, a blank
caption_lines(caption, table_number) ==
    << <<>>,
       (IF table_number # <<>>
        THEN <<"Table", " ">> \o table_number \o <<" ", "Caption", ":", " ">>
        ELSE <<"Table", " ", "Caption", ":", " ">>) \o caption,
       <<>> >>

\* The lines of _process_table from its three parts
table_section_lines(d, title_tag, table_md, caption_div) ==
    (IF title_tag # 0
     THEN << <<"#", "#", "#", " ">> \o clean_text(get_text(d, title_tag)), <<>> >>
     ELSE <<>>)
    \o (IF table_md # <<>> THEN <<table_md>> ELSE <<>>)
    \o (IF caption_div # 0
        THEN caption_lines(clean_text(get_text(d, caption_div)),
                           IF title_tag # 0
                           THEN TableNumber(clean_text(get_text(d, title_tag)))
                           ELSE <<>>)
        ELSE <<>>)

\* caption_div: div.caption, or else div.tw-foot
find_caption_div(d, sec) ==
    IF find(d, sec, NamedClass(d, {"div"}, "caption")) # 0
    THEN find(d, sec, NamedClass(d, {"div"}, "caption"))
    ELSE find(d, sec, NamedClass(d, {"div"}, "tw-foot"))

\* The table of a table section converted, "" when it has none
section_table_md(d, table_tag) ==
    IF table_tag = 0 THEN Ok(<<>>) ELSE convert_table_to_markdown(d, table_tag)

\* _process_table(table_section)
process_table(d, sec) ==
    With(find(d, sec, Named(d, {"table"})), LAMBDA table_tag :
    With(section_table_md(d, table_tag), LAMBDA md :
        IF md.raised THEN ValueError
        ELSE Ok(Join(<<"\n">>,
                     table_section_lines(
                         d, find(d, sec, NamedClass(d, {"h3", "h4"}, "obj_head")),
                         md.v, find_caption_div(d, sec))))))

base_url == <<"https", ":", "/", "/", "pmc.ncbi.nlm.nih.gov">>

\* "Ensure absolute URL"
absolute_src(src) ==
    IF IsPrefix(<<"/", "/">>, src) THEN <<"https", ":">> \o src
    ELSE IF IsPrefix(<<"/">>, src) THEN base_url \o src
    ELSE src

\* The image lines of _process_figure
figure_image_lines(d, fig, img) ==
    IF img = 0 \/ get(d, img, "src", <<>>) = <<>> THEN <<>>
    ELSE << <<"!", "[">> \o get(d, img, "alt", <<"Figure">>) \o <<"]", "(">>
              \o absolute_src(get(d, img, "src", <<>>)) \o <<")">>, <<>> >>
         \o (LET zoom == find(d, fig, NamedClass(d, {"a"}, "tileshop"))
             IN  IF zoom # 0 /\ get(d, zoom, "href", <<>>) # <<>>
                 THEN << <<"[", "View", " ", "larger", " ", "image", "]", "(">>
                           \o get(d, zoom, "href", <<>>) \o <<")">>, <<>> >>
                 ELSE <<>>)

\* _process_figure(figure_tag)
process_figure(d, fig) ==
    LET title_tag == find(d, fig, NamedClass(d, {"h3", "h4"}, "obj_head"))
        caption_tag == find(d, fig, Named(d, {"figcaption"}))
    IN  Join(<<"\n">>,
             (IF title_tag # 0
              THEN << <<"#", "#", "#", " ">> \o clean_text(get_text(d, title_tag)),
                      <<>> >>
              ELSE <<>>)
             \o figure_image_lines(d, fig, find(d, fig, Named(d, {"img"})))
             \o (IF caption_tag # 0
                 THEN <<clean_text(get_text(d, caption_tag)), <<>> >>
                 ELSE <<>>))

\* ------------------------------------- _process_section, _extract_main_content

\* heading_level with every heading at the level of h2
heading_level_two(tag) == 2

\* int(title_tag.name[1])
heading_level(tag) ==
    CASE tag = "h1" -> 1 [] tag = "h2" -> 2 [] tag = "h3" -> 3 [] tag = "h4" -> 4

\* The title lines of a section: "#" * level, the title, a blank line
section_title_lines(d, title_tag) ==
    IF title_tag = 0 THEN <<>>
    ELSE << Repeat("#", heading_level(d[title_tag].tag)) \o <<" ">>
              \o clean_text(get_text(d, title_tag)),
            <<>> >>

\* A string appended to lines when it is not empty
if_text(text) == IF text # <<>> THEN <<text>> ELSE <<>>

\* The lines of a paragraph: its text and a blank line, when not empty
paragraph_lines(text) == IF text # <<>> THEN <<text, <<>> >> ELSE <<>>

\* The lines of the children, none raising
all_lines(results) == Concat([k \in 1..Len(results) |-> results[k].v])

\* lines.append(md) when md is not empty, or the exception md stands for
append_if_text(md) == IF md.raised THEN ValueError ELSE Ok(if_text(md.v))

\* The string a section returns: "\n".join(lines), or the exception of a child
section_result(title_lines, results) ==
    IF \E k \in 1..Len(results) : results[k].raised THEN ValueError
    ELSE Ok(Join(<<"\n">>, title_lines \o all_lines(results)))

RECURSIVE process_section(_, _)
RECURSIVE element_lines(_, _)
RECURSIVE children_lines(_, _)

\* What one child of a section appends to lines (the body of the loop over
\* section.children), or the exception of a table below it
element_lines(d, e) ==
    IF ~IsTag(d, e) THEN Ok(<<>>)
    ELSE IF d[e].tag = "p" THEN Ok(paragraph_lines(process_paragraph(d, e)))
    ELSE IF d[e].tag = "section" /\ d[e].class # {}
         THEN IF "tw" \in d[e].class
              THEN append_if_text(process_table(d, e))
              ELSE IF "fig" \in d[e].class \/ "figure" \in d[e].class
              THEN Ok(if_text(process_figure(d, e)))
              ELSE append_if_text(process_section(d, e))
    ELSE IF d[e].tag = "figure" THEN Ok(if_text(process_figure(d, e)))
    ELSE IF d[e].tag = "table"
         THEN append_if_text(convert_table_to_markdown(d, e))
    ELSE Ok(<<>>)

\* The loop "for element in section.children"
children_lines(d, kids) == [k \in 1..Len(kids) |-> element_lines(d, kids[k])]

\* _process_section(section)
process_section(d, sec) ==
    With(children(d, sec), LAMBDA kids :
        section_result(
            section_title_lines(
                d, find(d, sec, NamedClass(d, {"h1", "h2", "h3", "h4"},
                                           "pmc_sec_title"))),
            children_lines(d, kids)))

\* "Skip abstract, references and keywords"
skipped_section(d, sec) ==
    d[sec].class \cap {"abstract", "ref-list", "kwd-group"} # {}

\* main_body.find_all("section", id=True)
sections_with_id(d, main_body) ==
    find_all(d, main_body,
             {j \in DOMAIN d : d[j].tag = "section" /\ "id" \in DOMAIN d[j].attrs})

\* "\n".join(content_parts), or the exception of a section
content_result(results) ==
    IF \E k \in 1..Len(results) : results[k].raised THEN ValueError
    ELSE Ok(Join(<<"\n">>, Concat([k \in 1..Len(results) |-> if_text(results[k].v)])))

\* The loop of _extract_main_content over the sections found
main_content_of(d, sections) ==
    content_result([k \in 1..Len(sections) |->
                        IF skipped_section(d, sections[k]) THEN Ok(<<>>)
                        ELSE process_section(d, sections[k])])

\* The main body located, None as 0
find_main_body(d) == find(d, 0, NamedClass(d, {"section"}, "main-article-body"))

\* _extract_main_content()
extract_main_content(d) ==
    With(find_main_body(d), LAMBDA main_body :
        IF main_body = 0 THEN Ok(<<>>)
        ELSE With(sections_with_id(d, main_body),
                  LAMBDA sections : main_content_of(d, sections)))

\* --------------------------------------- _extract_pmcid, _extract_metadata

RECURSIVE DigitRun(_, _)
\* The digits of s from position i on, up to the first other character
DigitRun(s, i) ==
    IF i > Len(s) \/ s[i] \notin Digits THEN <<>>
    ELSE <<s[i]>> \o DigitRun(s, i + 1)

\* The positions where PMC\d+ matches; "PMC" is one atom of a text
PMCMatches(s) ==
    {i \in 1..(Len(s) - 1) : s[i] = "PMC" /\ s[i + 1] \in Digits}

\* re.search(r"PMC(\d+)", s): "PMC" and the digits of the first match, or ""
SearchPMC(s) ==
    IF PMCMatches(s) = {} THEN <<>>
    ELSE LET i == CHOOSE i \in PMCMatches(s) : \A j \in PMCMatches(s) : i <= j
         IN  <<"PMC">> \o DigitRun(s, i + 1)

\* re.compile(r"PMCID:\s*PMC\d+").search(s); "PMCID" is one atom of a text
MatchesPMCIDLabel(s) ==
    \E i \in 1..Len(s), j \in PMCMatches(s) :
        /\ s[i] = "PMCID" /\ i + 1 < j /\ s[i + 1] = ":"
        /\ \A k \in (i + 2)..(j - 1) : s[k] \in Whitespace

\* The elements with the tag name and the attribute at the value
NamedAttr(d, tag, name, value) ==
    {j \in DOMAIN d : d[j].tag = tag /\ name \in DOMAIN d[j].attrs
                      /\ d[j].attrs[name] = value}

\* The second lookup of _extract_pmcid: the first text with a PMCID label
pmcid_from_text(d) ==
    LET pmcid_text == find(d, 0, {j \in DOMAIN d : ~IsTag(d, j)
                                     /\ MatchesPMCIDLabel(d[j].text)})
    IN  IF pmcid_text # 0 THEN SearchPMC(d[pmcid_text].text) ELSE <<>>

\* _extract_pmcid()
extract_pmcid(d) ==
    LET canonical == find(d, 0, NamedAttr(d, "link", "rel", <<"canonical">>))
    IN  IF canonical # 0 /\ get(d, canonical, "href", <<>>) # <<>>
           /\ SearchPMC(get(d, canonical, "href", <<>>)) # <<>>
        THEN SearchPMC(get(d, canonical, "href", <<>>))
        ELSE pmcid_from_text(d)

\* meta_mappings: the meta name of each metadata key
meta_mappings ==
    [title |-> <<"citation_title">>,
     journal |-> <<"citation_journal_title">>,
     doi |-> <<"citation_doi">>,
     pmid |-> <<"citation_pmid">>,
     pdf_url |-> <<"citation_pdf_url">>,
     publication_date |-> <<"citation_publication_date">>,
     abstract_url |-> <<"citation_abstract_html_url">>,
     fulltext_url |-> <<"citation_fulltext_html_url">>]

\* meta_tag and meta_tag.get("content"), for one meta name
has_meta(d, meta_name) ==
    LET meta_tag == find(d, 0, NamedAttr(d, "meta", "name", meta_name))
    IN  meta_tag # 0 /\ get(d, meta_tag, "content", <<>>) # <<>>

\* meta_tag["content"].strip()
meta_content(d, meta_name) ==
    Strip(get(d, find(d, 0, NamedAttr(d, "meta", "name", meta_name)),
              "content", <<>>))

\* The contents of the citation_author tags that have one
meta_authors(d) ==
    LET author_tags == find_all(d, 0, NamedAttr(d, "meta", "name",
                                                <<"citation_author">>)
                                      \cap {j \in DOMAIN d :
                                              get(d, j, "content", <<>>) # <<>>})
    IN  [k \in 1..Len(author_tags) |->
            Strip(get(d, author_tags[k], "content", <<>>))]

\* re.sub(r"\s*-\s*PMC\s*$", "", title)
drop_pmc_suffix(title) ==
    LET a == RStrip(title)
        b == RStrip(SubSeq(a, 1, Len(a) - 1))
    IN  IF a # <<>> /\ a[Len(a)] = "PMC" /\ b # <<>> /\ b[Len(b)] = "-"
        THEN RStrip(SubSeq(b, 1, Len(b) - 1))
        ELSE title

\* The title of the page when no meta tag gives one
page_title(d) == drop_pmc_suffix(Strip(get_text(d, find(d, 0, Named(d, {"title"})))))

\* The keys of the metadata dictionary besides "authors" and "pmcid"
metadata_keys(d) ==
    {key \in DOMAIN meta_mappings : has_meta(d, meta_mappings[key])}
    \cup (IF find(d, 0, Named(d, {"title"})) # 0 THEN {"title"} ELSE {})

\* _extract_metadata(): the keys filled in and their values
extract_metadata(d) ==
    [keys |-> metadata_keys(d) \cup {"authors", "pmcid"},
     val |-> [key \in metadata_keys(d) |->
                IF has_meta(d, meta_mappings[key])
                THEN meta_content(d, meta_mappings[key])
                ELSE page_title(d)],
     authors |-> meta_authors(d),
     pmcid |-> extract_pmcid(d)]

\* One optional line of _format_metadata
meta_line(metadata, key, label) ==
    IF key \in metadata.keys
    THEN << <<"**", label, ":", "**", " ">> \o metadata.val[key] >>
    ELSE <<>>

\* _format_metadata(metadata)
format_metadata(metadata) ==
    Join(<<"\n">>,
         (IF "title" \in metadata.keys
          THEN << <<"#", " ">> \o metadata.val["title"], <<>> >> ELSE <<>>)
         \o << <<"#", "#", " ", "Metadata">> >>
         \o (IF "authors" \in metadata.keys /\ metadata.authors # <<>>
             THEN << <<"**", "Authors", ":", "**", " ">>
                       \o Join(<<",", " ">>, metadata.authors) >>
             ELSE <<>>)
         \o meta_line(metadata, "journal", "Journal")
         \o meta_line(metadata, "publication_date", "Date")
         \o (IF "doi" \in metadata.keys
             THEN << <<"**", "DOI", ":", "**", " ", "[">> \o metadata.val["doi"]
                       \o <<"]", "(", "https", ":", "/", "/", "doi.org", "/">>
                       \o metadata.val["doi"] \o <<")">> >>
             ELSE <<>>)
         \o meta_line(metadata, "pmid", "PMID")
         \o (IF "pmcid" \in metadata.keys
             THEN << <<"**", "PMCID", ":", "**", " ">> \o metadata.pmcid,
                     <<"**", "URL", ":", "**", " ", "https", ":", "/", "/",
                       "www.ncbi.nlm.nih.gov", "/", "pmc", "/", "articles", "/">>
                       \o metadata.pmcid \o <<"/">> >>
             ELSE <<>>)
         \o (IF "pdf_url" \in metadata.keys
             THEN << <<"**", "PDF", ":", "**", " ", "[">> \o metadata.val["pdf_url"]
                       \o <<"]", "(">> \o metadata.val["pdf_url"] \o <<")">> >>
             ELSE <<>>))

\* ------------------------------------------- _extract_abstract, scanned pages

RECURSIVE RStripColon(_)
\* str.rstrip(":")
RStripColon(s) ==
    IF s # <<>> /\ s[Len(s)] = ":"
    THEN RStripColon(SubSeq(s, 1, Len(s) - 1)) ELSE s

\* current_section as a subsection heading sets it
subsection_name(d, h) == RStripColon(Strip(get_text(d, h)))

\* current_section when the loop over the descendants reaches element e:
\* the name of the last subsection heading before it, None as ""
current_section(d, headings, e) ==
    LET before == {h \in headings : h < e}
    IN  IF before = {} THEN <<>>
        ELSE subsection_name(d, CHOOSE h \in before : \A g \in before : g <= h)

\* What one descendant of a structured abstract appends to lines
abstract_element_lines(d, headings, e) ==
    IF e \in headings
    THEN << <<"**">> \o subsection_name(d, e) \o <<":", "**", " ">> >>
    ELSE IF d[e].tag = "p" /\ current_section(d, headings, e) # <<>>
    THEN paragraph_lines(clean_text(get_text(d, e)))
    ELSE <<>>

\* The lines of the abstract below its heading
abstract_lines(d, elements, headings) ==
    IF headings # {}
    THEN Concat([k \in 1..Len(elements) |->
                    abstract_element_lines(d, headings, elements[k])])
    ELSE Concat([k \in 1..Len(elements) |->
                    IF d[elements[k]].tag = "p"
                    THEN paragraph_lines(clean_text(get_text(d, elements[k])))
                    ELSE <<>>])

\* subsections: the h3 and h4 of class pmc_sec_title below the abstract
abstract_subsections(d, sec) ==
    {h \in NamedClass(d, {"h3", "h4"}, "pmc_sec_title") :
        sec < h /\ h <= SubtreeEnd(d, sec, sec)}

\* The abstract section located, None as 0
find_abstract(d) == find(d, 0, NamedClass(d, {"section"}, "abstract"))

\* _extract_abstract()
extract_abstract(d) ==
    With(find_abstract(d), LAMBDA abstract_section :
        IF abstract_section = 0 THEN <<>>
        ELSE With(descendants(d, abstract_section), LAMBDA elements :
             With(abstract_subsections(d, abstract_section), LAMBDA subsections :
                Join(<<"\n">>,
                     << <<"#", "#", " ", "Abstract">>, <<>> >>
                     \o abstract_lines(d, elements, subsections)))))

\* is_scanned_document looking at the scanned-pages section alone
is_scanned_document_section(d) ==
    find(d, 0, NamedClass(d, {"section"}, "scanned-pages")) # 0

\* _is_scanned_document()
is_scanned_document(d) ==
    \/ find(d, 0, NamedClass(d, {"section"}, "scanned-pages")) # 0
    \/ find(d, 0, NamedAttr(d, "meta", "name", <<"ncbi_type">>)
                  \cap NamedAttr(d, "meta", "content", <<"scanpage">>)) # 0
    \/ find(d, 0, NamedClass(d, {"figure"}, "fig-scanned")) # 0

\* The note that opens the rendering of a scanned document
scanned_note ==
    <<"*Note: This is a scanned document with limited structured text. Full content available in PDF.*">>

\* What the i-th scanned figure appends to lines
scanned_page_lines(d, img, i) ==
    IF img # 0 /\ get(d, img, "src", <<>>) # <<>>
    THEN << <<"#", "#", "#", " ", "Page", " ">> \o str(i),
            <<"!", "[">> \o get(d, img, "alt", <<"Page", " ">> \o str(i))
                \o <<"]", "(">> \o get(d, img, "src", <<>>) \o <<")">>,
            <<>> >>
    ELSE <<>>

\* The lines of the scanned pages section
scanned_section_lines(d, figures) ==
    << <<"#", "#", " ", "Full Text (Scanned Pages)">>, <<>> >>
    \o Concat([i \in 1..Len(figures) |->
                scanned_page_lines(d, find(d, figures[i], Named(d, {"img"})), i)])

\* The lines of _handle_scanned_document from the abstract and the section
scanned_lines(d, abstract, scanned_section) ==
    <<scanned_note, <<>> >>
    \o (IF Strip(abstract) # <<>> THEN <<abstract>> ELSE <<>>)
    \o (IF scanned_section # 0
        THEN scanned_section_lines(
                 d, find_all(d, scanned_section,
                             NamedClass(d, {"figure"}, "fig-scanned")))
        ELSE <<>>)

\* _handle_scanned_document()
handle_scanned_document(d) ==
    Join(<<"\n">>,
         scanned_lines(d, extract_abstract(d),
                       find(d, 0, NamedClass(d, {"section"}, "scanned-pages"))))

\* ------------------------------------- _extract_references, _process_reference

\* str.upper() on the link texts of the alphabet
upper(text) ==
    [k \in 1..Len(text) |->
        CASE text[k] \in {"doi", "Doi", "DOI"} -> "DOI"
          [] text[k] \in {"pmc", "PMC"} -> "PMC"
          [] text[k] \in {"pubmed", "PubMed", "PUBMED"} -> "PUBMED"
          [] OTHER -> text[k]]

\* word in href, the host names being atoms of an address
Contains(s, word) == \E k \in 1..Len(s) : s[k] = word

\* reference_link with the PMC test before the DOI test
reference_link_pmc_first(href, text) ==
    IF Contains(href, "pmc.ncbi.nlm.nih.gov") \/ upper(text) = <<"PMC">>
    THEN <<"[", "PMC", "]", "(">> \o href \o <<")">>
    ELSE IF Contains(href, "doi.org") \/ upper(text) = <<"DOI">>
    THEN <<"[", "DOI", "]", "(">> \o href \o <<")">>
    ELSE IF Contains(href, "pubmed.ncbi.nlm.nih.gov") \/ upper(text) = <<"PUBMED">>
    THEN <<"[", "PubMed", "]", "(">> \o href \o <<")">>
    ELSE <<"[">> \o text \o <<"]", "(">> \o href \o <<")">>

\* The markdown link of one <a href> of a reference
reference_link(href, text) ==
    IF Contains(href, "doi.org") \/ upper(text) = <<"DOI">>
    THEN <<"[", "DOI", "]", "(">> \o href \o <<")">>
    ELSE IF Contains(href, "pmc.ncbi.nlm.nih.gov") \/ upper(text) = <<"PMC">>
    THEN <<"[", "PMC", "]", "(">> \o href \o <<")">>
    ELSE IF Contains(href, "pubmed.ncbi.nlm.nih.gov") \/ upper(text) = <<"PUBMED">>
    THEN <<"[", "PubMed", "]", "(">> \o href \o <<")">>
    ELSE <<"[">> \o text \o <<"]", "(">> \o href \o <<")">>

\* link_parts: the links of a reference, in document order
reference_links(d, links) ==
    [k \in 1..Len(links) |->
        reference_link(get(d, links[k], "href", <<>>),
                       Strip(get_text(d, links[k])))]

\* cite_text when the reference has no <cite>: the text of the children that
\* are not links
uncited_text(d, kids) ==
    clean_text(Concat([k \in 1..Len(kids) |->
        IF ~IsTag(d, kids[k]) THEN d[kids[k]].text
        ELSE IF d[kids[k]].tag # "a" THEN get_text(d, kids[k])
        ELSE <<>>]))

\* cite_text
cite_text(d, ref_item, cite_tag) ==
    IF cite_tag # 0 THEN clean_text(get_text(d, cite_tag))
    ELSE uncited_text(d, children(d, ref_item))

\* " ".join(parts) of _process_reference
reference_text(ref_num, cite, link_parts) ==
    Join(<<" ">>,
         <<str(ref_num) \o <<".">>, cite>>
         \o (IF link_parts # <<>>
             THEN << <<" ">> \o Join(<<" ", "|", " ">>, link_parts) >>
             ELSE <<>>))

\* _process_reference(ref_item, ref_num)
process_reference(d, ref_item, ref_num) ==
    reference_text(
        ref_num,
        cite_text(d, ref_item, find(d, ref_item, Named(d, {"cite"}))),
        reference_links(d, find_all(d, ref_item,
                                    {j \in DOMAIN d : d[j].tag = "a"
                                        /\ "href" \in DOMAIN d[j].attrs})))

\* The lines of the reference list
reference_lines(d, items) ==
    Concat([i \in 1..Len(items) |-> paragraph_lines(process_reference(d, items[i], i))])

\* The references section located, None as 0
find_ref_section(d) == find(d, 0, NamedClass(d, {"section"}, "ref-list"))

\* ref_list: the first <ul> or <ol> of class ref-list in the section
find_ref_list(d) ==
    find(d, find_ref_section(d), NamedClass(d, {"ul", "ol"}, "ref-list"))

\* _extract_references()
extract_references(d) ==
    IF find_ref_section(d) = 0 THEN <<>>
    ELSE With(find_ref_list(d), LAMBDA ref_list :
            Join(<<"\n">>,
                 << <<"#", "#", " ", "References">>, <<>> >>
                 \o (IF ref_list # 0
                     THEN With(find_all(d, ref_list, Named(d, {"li"})),
                               LAMBDA items : reference_lines(d, items))
                     ELSE <<>>)))

\* ------------------------------------------------- _clean_markdown, the join

\* CollapseNewlines without the substitution
CollapseNewlines_none(markdown) == markdown

\* re.sub(r"\n{3,}", "\n\n", markdown): a newline goes when the two
\* characters before it are newlines
CollapseNewlines(markdown) ==
    LET kept(i) == ~(/\ markdown[i] = "\n" /\ i > 2
                     /\ markdown[i - 1] = "\n" /\ markdown[i - 2] = "\n")
        idx == SelectSeq([i \in 1..Len(markdown) |-> i], kept)
    IN  [k \in 1..Len(idx) |-> markdown[idx[k]]]

\* clean_markdown without the strip()
clean_markdown_unstripped(markdown) == CollapseNewlines(markdown) \o <<"\n">>

\* _clean_markdown(markdown)
clean_markdown(markdown) == Strip(CollapseNewlines(markdown)) \o <<"\n">>

\* filter(None, markdown_parts)
filter_none(parts) ==
    Concat([k \in 1..Len(parts) |-> IF parts[k] # <<>> THEN <<parts[k]>> ELSE <<>>])

\* "\n\n".join(filter(None, markdown_parts)), cleaned
join_parts(parts) == clean_markdown(Join(<<"\n", "\n">>, filter_none(parts)))

\* ------------------------------------------------------------ convert_html

\* The tokens of an HTML text: start tags, end tags and character data
StartTag(tag, class, attrs) ==
    [kind |-> "start", tag |-> tag, class |-> class, attrs |-> attrs, text |-> <<>>]
EndTag(tag) ==
    [kind |-> "end", tag |-> tag, class |-> {}, attrs |-> NoAttrs, text |-> <<>>]
Data(text) ==
    [kind |-> "data", tag |-> "#text", class |-> {}, attrs |-> NoAttrs, text |-> text]

\* The elements html.parser closes as soon as they open
VoidTags == {"meta", "link", "img", "br", "hr", "input"}

\* The elements open where the i-th token stands. Every end tag of the texts
\* converted closes the element opened last, so each closes one element.
OpenAt(tokens, i) ==
    Cardinality({j \in 1..(i - 1) : tokens[j].kind = "start"
                                     /\ tokens[j].tag \notin VoidTags})
    - Cardinality({j \in 1..(i - 1) : tokens[j].kind = "end"})

\* The tree a token sequence builds, in document order: a node for each start
\* tag and each run of character data, as deep as elements are open around it
parse_tokens(tokens) ==
    LET is_node(i) == tokens[i].kind # "end"
        idx == SelectSeq([i \in 1..Len(tokens) |-> i], is_node)
    IN  [k \in 1..Len(idx) |->
            IF tokens[idx[k]].kind = "start"
            THEN Elem(OpenAt(tokens, idx[k]), tokens[idx[k]].tag,
                      tokens[idx[k]].class, tokens[idx[k]].attrs)
            ELSE Text(OpenAt(tokens, idx[k]), tokens[idx[k]].text)]

\* BeautifulSoup(html_content, "html.parser")
BeautifulSoup(html_content) == parse_tokens(html_content)

\* soup_assigned keeping a tree the converter already holds
soup_kept(old_soup, html_content) ==
    IF old_soup = <<>> THEN BeautifulSoup(html_content) ELSE old_soup

\* self.soup after the assignment that opens convert_html
soup_assigned(old_soup, html_content) == BeautifulSoup(html_content)

\* article_parts with the main content ahead of the abstract
article_parts_reordered(abstract, main, references) ==
    IF main.raised THEN ValueError ELSE Ok(<<main.v, abstract, references>>)

\* The parts of a document that is not scanned, or the exception; each part
\* read from the tree given for it
article_parts(abstract, main, references) ==
    IF main.raised THEN ValueError ELSE Ok(<<abstract, main.v, references>>)

\* The parts after the metadata, read from one tree
content_parts(d) ==
    IF is_scanned_document(d) THEN Ok(<<handle_scanned_document(d)>>)
    ELSE With(extract_main_content(d), LAMBDA main :
            article_parts(extract_abstract(d), main, extract_references(d)))

\* The string returned from the metadata part and the content parts
markdown_of(metadata_part, content) ==
    IF content.raised THEN ValueError
    ELSE Ok(join_parts(<<metadata_part>> \o content.v))

\* The whole of convert_html on one tree that nothing else replaces
convert_tree(d) ==
    With(content_parts(d), LAMBDA content :
        markdown_of(format_metadata(extract_metadata(d)), content))

\* convert_html(html_content) run alone
convert_html(html_content) == With(BeautifulSoup(html_content), convert_tree)

\* ------------------------------------------------------ the tables checked

MaxTableCells == 3
MaxTableRows == 2

\* Source cells: their attributes and their text.
CellPool ==
    { [attrs |-> NoAttrs, text |-> <<"a">>],
      [attrs |-> NoAttrs, text |-> <<" ">>],
      [attrs |-> "colspan" :> <<"1">>, text |-> <<"-", "1", ".", "5">>],
      [attrs |-> "colspan" :> <<"2">>, text |-> <<"a", "|", "b">>],
      [attrs |-> "colspan" :> <<"3">>, text |-> <<>>] }

\* The sequences of at most n source cells
CellSeqs(n) == UNION {[1..m -> CellPool] : m \in 0..n}

RECURSIVE RowSeqs(_, _)
\* The sequences of at most r rows holding at most c cells together
RowSeqs(r, c) ==
    IF r = 0 THEN {<<>>}
    ELSE {<<>>} \cup
         UNION { {<<row>> \o rest : rest \in RowSeqs(r - 1, c - Len(row))} :
                 row \in CellSeqs(c) }

\* The nodes of one tr at a depth, its cells td (th in a thead)
RowNodes(depth, celltag, row) ==
    <<Elem(depth, "tr", {}, NoAttrs)>> \o
    Concat([k \in 1..Len(row) |->
        <<Elem(depth + 1, celltag, {}, row[k].attrs)>>
        \o (IF row[k].text = <<>> THEN <<>>
            ELSE <<Text(depth + 2, row[k].text)>>)])

\* The tree of <table>: a thead holding the first nhead rows when thead,
\* the other rows in a tbody when tbody and directly in the table otherwise.
TableNodes(depth, rows, thead, nhead, tbody) ==
    <<Elem(depth, "table", {}, NoAttrs)>>
    \o (IF thead THEN <<Elem(depth + 1, "thead", {}, NoAttrs)>> ELSE <<>>)
    \o Concat([k \in 1..nhead |-> RowNodes(depth + 2, "th", rows[k])])
    \o (IF tbody THEN <<Elem(depth + 1, "tbody", {}, NoAttrs)>> ELSE <<>>)
    \o Concat([k \in 1..(Len(rows) - nhead) |->
                RowNodes(depth + (IF tbody THEN 2 ELSE 1), "td",
                         rows[nhead + k])])

\* ------------------------------------ the tables of row groups checked

MaxGroups == 3
MaxGroupRows == 2

\* The children of a table: a thead, tbody or tfoot of n rows, or one tr
GroupItems ==
    [tag : {"thead", "tbody", "tfoot"}, n : 0..MaxGroupRows]
    \cup {[tag |-> "tr", n |-> 1]}

\* The tables of at most MaxGroups children, one thead at most
GroupTables ==
    {items \in UNION {[1..m -> GroupItems] : m \in 0..MaxGroups} :
        Cardinality({k \in DOMAIN items : items[k].tag = "thead"}) <= 1}

RECURSIVE RowsBefore(_, _)
\* The rows of the table that come before its k-th child
RowsBefore(items, k) ==
    IF k <= 1 THEN 0 ELSE RowsBefore(items, k - 1) + items[k - 1].n

\* The text of the i-th row of a table: a number, or a word and a number
RowText(i, numeric) == IF numeric THEN <<Digit(i)>> ELSE <<"r", Digit(i)>>

\* The nodes of the i-th row: a tr with one cell
GroupRowNodes(depth, celltag, i, numeric) ==
    <<Elem(depth, "tr", {}, NoAttrs), Elem(depth + 1, celltag, {}, NoAttrs),
      Text(depth + 2, RowText(i, numeric))>>

\* The nodes of one child of the table, its first row the (first + 1)-th
GroupNodes(item, first, numeric) ==
    IF item.tag = "tr" THEN GroupRowNodes(1, "td", first + 1, numeric)
    ELSE <<Elem(1, item.tag, {}, NoAttrs)>>
         \o Concat([j \in 1..item.n |->
                GroupRowNodes(2, IF item.tag = "thead" THEN "th" ELSE "td",
                              first + j, numeric)])

\* The tree of <table> with the children in their order
GroupTableNodes(items, numeric) ==
    <<Elem(0, "table", {}, NoAttrs)>>
    \o Concat([k \in 1..Len(items) |->
            GroupNodes(items[k], RowsBefore(items, k), numeric)])

\* ------------------------------------------------ the article bodies checked

MaxBodyNodes == 3

\* The elements put below the main article body: paragraphs, a section
\* heading, an unknown wrapper, and sections with and without id and class
BodyKinds ==
    { [tag |-> "p", class |-> {}, id |-> FALSE],
      [tag |-> "h2", class |-> {"pmc_sec_title"}, id |-> FALSE],
      [tag |-> "div", class |-> {}, id |-> FALSE],
      [tag |-> "section", class |-> {}, id |-> FALSE],
      [tag |-> "section", class |-> {}, id |-> TRUE],
      [tag |-> "section", class |-> {"sec"}, id |-> FALSE],
      [tag |-> "section", class |-> {"sec"}, id |-> TRUE],
      [tag |-> "section", class |-> {"abstract"}, id |-> TRUE] }

IsContainer(kind) == kind.tag \in {"section", "div"}

\* The elements below the body in document order, each with its depth: a
\* node is a child of the body or lies below an earlier container
BodyShapes ==
    UNION { { sh \in [1..n -> [depth : 1..n, kind : BodyKinds]] :
                \A i \in 1..n :
                    IF i = 1 THEN sh[i].depth = 1
                    ELSE /\ sh[i].depth <= sh[i - 1].depth + 1
                         /\ sh[i].depth = sh[i - 1].depth + 1
                                => IsContainer(sh[i - 1].kind) } :
            n \in 0..MaxBodyNodes }

\* The text of the paragraph or heading that is the i-th element
BodyLabel(sh, i) == <<sh[i].kind.tag, Digit(i)>>

\* The tree of <section class="main-article-body"> over the elements
BodyNodes(sh) ==
    <<Elem(0, "section", {"main-article-body"}, NoAttrs)>>
    \o Concat([i \in 1..Len(sh) |->
        <<Elem(sh[i].depth, sh[i].kind.tag, sh[i].kind.class,
               IF sh[i].kind.id THEN "id" :> <<"s", Digit(i)>> ELSE NoAttrs)>>
        \o (IF IsContainer(sh[i].kind) THEN <<>>
            ELSE <<Text(sh[i].depth + 1, BodyLabel(sh, i))>>)])

\* ------------------------------------------- the section headings checked

MaxSections == 3

\* The bodies of at most MaxSections sections, each with a heading of a level
\* from h1 to h4 and a paragraph, nested each in the one before or side by side
HeadingShapes ==
    [levels : UNION {[1..n -> 1..4] : n \in 1..MaxSections}, nested : BOOLEAN]

\* The title of the i-th section
HeadingTitle(i) == <<"T", Digit(i)>>

\* The tree of <section class="main-article-body"> over the sections
HeadingNodes(sh) ==
    <<Elem(0, "section", {"main-article-body"}, NoAttrs)>>
    \o Concat([i \in 1..Len(sh.levels) |->
        LET depth == IF sh.nested THEN i ELSE 1
        IN  <<Elem(depth, "section", {"sec"}, "id" :> <<"s", Digit(i)>>),
              Elem(depth + 1, <<"h1", "h2", "h3", "h4">>[sh.levels[i]],
                   {"pmc_sec_title"}, NoAttrs),
              Text(depth + 2, HeadingTitle(i)),
              Elem(depth + 1, "p", {}, NoAttrs),
              Text(depth + 2, <<"p", Digit(i)>>)>>])

\* ---------------------------------------------------- the documents converted

MaxCalls == 3
MaxThreads == 2

\* The threads that may be inside convert_html of the one converter
Threads == 1..MaxThreads

Meta(name, content) ==
    StartTag("meta", {}, ("name" :> name) @@ ("content" :> content))

\* <tag class=...>text</tag>
Leaf(tag, class, text) == <<StartTag(tag, class, NoAttrs), Data(text), EndTag(tag)>>

\* The head of the article named x
ArticleHead(x) ==
    Leaf("title", {}, <<"Study", " ", x, " ", "-", " ", "PMC">>)
    \o <<Meta(<<"citation_author">>, <<"Author", " ", x>>),
         StartTag("link", {}, ("rel" :> <<"canonical">>)
             @@ ("href" :> <<"https", ":", "/", "/", "pmc.ncbi.nlm.nih.gov", "/",
                             "articles", "/", "PMC", "1", x>>))>>

\* The abstract of the article named x
ArticleAbstract(x) ==
    <<StartTag("section", {"abstract"}, "id" :> <<"abstract1">>)>>
    \o Leaf("p", {}, <<"Summary", " ", x>>)
    \o <<EndTag("section")>>

\* A table section of one row; its second cell spans colspan columns
ArticleTable(x, colspan) ==
    <<StartTag("section", {"tw"}, NoAttrs), StartTag("table", {}, NoAttrs),
      StartTag("tr", {}, NoAttrs)>>
    \o Leaf("td", {}, <<x>>)
    \o <<StartTag("td", {}, "colspan" :> colspan), Data(<<"1">>), EndTag("td"),
         EndTag("tr"), EndTag("table"), EndTag("section")>>

\* The body of the article named x: one section with a heading, a paragraph
\* and the tables given
ArticleBody(x, tables) ==
    <<StartTag("section", {"main-article-body"}, NoAttrs),
      StartTag("section", {"sec"}, "id" :> <<"s1">>)>>
    \o Leaf("h2", {"pmc_sec_title"}, <<"Results", " ", x>>)
    \o Leaf("p", {}, <<"Finding", " ", x>>)
    \o tables
    \o <<EndTag("section"), EndTag("section")>>

\* The reference list of the article named x
ArticleReferences(x) ==
    <<StartTag("section", {"ref-list"}, NoAttrs),
      StartTag("ul", {"ref-list"}, NoAttrs), StartTag("li", {}, NoAttrs)>>
    \o Leaf("cite", {}, <<"Source", " ", x>>)
    \o <<StartTag("a", {}, "href" :> <<"https", ":", "/", "/", "doi.org", "/", x>>),
         Data(<<"DOI">>), EndTag("a"),
         EndTag("li"), EndTag("ul"), EndTag("section")>>

\* An article with its four parts
Article(x, tables) ==
    ArticleHead(x) \o ArticleAbstract(x) \o ArticleBody(x, tables)
    \o ArticleReferences(x)

\* A scanned document of one page
ScannedDocument(x) ==
    ArticleHead(x)
    \o <<Meta(<<"ncbi_type">>, <<"scanpage">>),
         StartTag("section", {"scanned-pages"}, NoAttrs),
         StartTag("figure", {"fig-scanned"}, NoAttrs),
         StartTag("img", {}, "src" :> <<"/", "page", x, ".", "jpg">>),
         EndTag("figure"), EndTag("section")>>

\* The names of the documents
DocNames == {"1", "2"}

\* The HTML texts handed to convert_html: articles without a table, with a
\* table whose cell spans two columns, with a table whose colspan attribute
\* is not a number, and scanned documents
Documents ==
    UNION { { Article(x, <<>>),
              Article(x, ArticleTable(x, <<"2">>)),
              Article(x, ArticleTable(x, <<"x">>)),
              ScannedDocument(x) } : x \in DocNames }

\* ------------------------------------------------------------------ state

VARIABLES
    t_shape,    \* the source of the table handed to _convert_table_to_markdown
    t_soup,     \* its parsed tree
    t_pc,       \* "call", then "returned" or "raised"
    t_loc,      \* the locals of _convert_table_to_markdown at its return
    b_shape,    \* the source of the body handed to _extract_main_content
    b_soup,     \* its parsed tree
    b_pc,       \* "call", then "returned" or "raised"
    b_out,      \* what _extract_main_content returned
    c_soup,     \* self.soup of the shared converter, <<>> while it is None
    c_pc,       \* where each thread is inside convert_html
    c_html,     \* html_content of each thread's call
    c_parts,    \* markdown_parts of each thread's call
    c_log,      \* the calls that ended: the input and what came back
    c_left,     \* how many calls may still begin
    a_sem,      \* the value of _ncbi_semaphore
    a_pc,       \* where each request or batch job is in its pipeline
    a_kind,     \* "pmid" or "pmcid": the pipeline each of them runs
    a_trace,    \* what the calls of each observed pipeline returned, in order
    u_fn,       \* the method called on its own, "" when none is
    u_in,       \* its argument
    u_pc,       \* "call", then "returned"
    u_out,      \* what it returned
    r_pc,       \* where the call of get_pmcid_from_pmid is
    r_args,     \* its arguments pmids and batch_size; whether a call follows
    r_now,      \* datetime.now(), in days
    r_file,     \* the cache file on the disk
    r_loc,      \* its locals pmids, cache, results, pmids_to_fetch and i
    r_sent,     \* the requests sent so far, in order: ids, time and outcome
    s_cache,    \* the cache file of each article's supplement
    s_last,     \* the last supplement lookup: its call and what it did
    s_left,     \* how many lookups may still be made
    p_file,     \* the cache file on the disk that concurrent calls share
    p_pc,       \* where each concurrent call of get_pmcid_from_pmid is
    p_cache,    \* the local cache of each concurrent call
    j_job,      \* the record of the batch job in _jobs, once it is submitted
    j_ids,      \* the identifiers the job was submitted with
    j_task,     \* the job's task: where it is and its local results
    j_polls,    \* what the polls of the job were answered, in order
    d_html,     \* the files of save_dir/html: name and HTML text
    d_md,       \* the files of save_dir/markdown: name and content
    d_cache,    \* the cache files of the supplements, by article
    d_server,   \* what the BioC service answers for each article
    d_call,     \* the last call of the downloader, what it found and what it gave
    d_left,     \* how many calls of the downloader may still be made
    d_converted \* what convert_html gives for each HTML text, worked out once

tvars == <<t_shape, t_soup, t_pc, t_loc>>
bvars == <<b_shape, b_soup, b_pc, b_out>>
cvars == <<c_soup, c_pc, c_html, c_parts, c_log, c_left>>
avars == <<a_sem, a_pc, a_kind, a_trace>>
uvars == <<u_fn, u_in, u_pc, u_out>>
rvars == <<r_pc, r_args, r_now, r_file, r_loc, r_sent>>
svars == <<s_cache, s_last, s_left>>
pvars == <<p_file, p_pc, p_cache>>
jvars == <<j_job, j_ids, j_task, j_polls>>
dvars == <<d_html, d_md, d_cache, d_server, d_call, d_left, d_converted>>
vars == <<tvars, bvars, cvars, avars, uvars, rvars, svars, pvars, jvars, dvars>>

\* What the steps of one part of the program leave alone
not_table == <<bvars, cvars, avars, uvars, rvars, svars, pvars, jvars, dvars>>
not_body == <<tvars, cvars, avars, uvars, rvars, svars, pvars, jvars, dvars>>
not_converter == <<tvars, bvars, avars, uvars, rvars, svars, pvars, jvars, dvars>>
not_api == <<tvars, bvars, cvars, uvars, rvars, svars, pvars, jvars, dvars>>
not_unit == <<tvars, bvars, cvars, avars, rvars, svars, pvars, jvars, dvars>>
not_resolver == <<tvars, bvars, cvars, avars, uvars, svars, pvars, jvars, dvars>>
not_supplement == <<tvars, bvars, cvars, avars, uvars, rvars, pvars, jvars, dvars>>
not_calls == <<tvars, bvars, cvars, avars, uvars, rvars, svars, jvars, dvars>>
not_jobs == <<tvars, bvars, cvars, avars, uvars, rvars, svars, pvars, dvars>>
not_downloader == <<tvars, bvars, cvars, avars, uvars, rvars, svars, pvars, jvars>>

\* No table conversion under way
TableIdle ==
    /\ t_shape = [rows |-> <<>>, thead |-> FALSE, nhead |-> 0, tbody |-> FALSE]
    /\ t_soup = <<>>
    /\ t_pc = "idle"
    /\ t_loc = [raised |-> FALSE]

\* A table about to be converted
TableInit ==
    /\ \E rows \in RowSeqs(MaxTableRows, MaxTableCells), thead \in BOOLEAN,
          nhead \in 0..MaxTableRows, tbody \in BOOLEAN :
        /\ nhead <= Len(rows)
        /\ ~thead => nhead = 0
        /\ t_shape = [rows |-> rows, thead |-> thead, nhead |-> nhead,
                      tbody |-> tbody]
    /\ t_soup = TableNodes(0, t_shape.rows, t_shape.thead, t_shape.nhead,
                           t_shape.tbody)
    /\ t_pc = "call"
    /\ t_loc = [raised |-> FALSE]

\* One call of _convert_table_to_markdown on the table element
ConvertTable ==
    /\ t_pc = "call"
    /\ t_loc' = table_locals(t_soup, 1)
    /\ t_pc' = IF t_loc'.raised THEN "raised" ELSE "returned"
    /\ UNCHANGED <<t_shape, t_soup, not_table>>

\* A table of row groups about to be converted
GroupTableInit ==
    /\ \E items \in GroupTables, numeric \in BOOLEAN :
        t_shape = [items |-> items, numeric |-> numeric]
    /\ t_soup = GroupTableNodes(t_shape.items, t_shape.numeric)
    /\ t_pc = "call"
    /\ t_loc = [raised |-> FALSE]

\* No main-content extraction under way
BodyIdle ==
    /\ b_shape = <<>>
    /\ b_soup = <<>>
    /\ b_pc = "idle"
    /\ b_out = Ok(<<>>)

\* An article body about to be rendered
BodyInit ==
    /\ b_shape \in BodyShapes
    /\ b_soup = BodyNodes(b_shape)
    /\ b_pc = "call"
    /\ b_out = Ok(<<>>)

\* A body of headed sections about to be rendered
HeadingInit ==
    /\ b_shape \in HeadingShapes
    /\ b_soup = HeadingNodes(b_shape)
    /\ b_pc = "call"
    /\ b_out = Ok(<<>>)

\* One call of _extract_main_content on the parsed document
ExtractMainContent ==
    /\ b_pc = "call"
    /\ b_out' = extract_main_content(b_soup)
    /\ b_pc' = IF b_out'.raised THEN "raised" ELSE "returned"
    /\ UNCHANGED <<b_shape, b_soup, not_body>>

\* No thread may call the converter
ConverterIdle ==
    /\ c_soup = <<>>
    /\ c_pc = [t \in Threads |-> "off"]
    /\ c_html = [t \in Threads |-> <<>>]
    /\ c_parts = [t \in Threads |-> <<>>]
    /\ c_log = <<>>
    /\ c_left = 0

\* The converter as constructed, with the threads in users free to make the
\* number of calls between them
ConverterInit(users, calls) ==
    /\ c_soup = <<>>
    /\ c_pc = [t \in Threads |-> IF t \in users THEN "idle" ELSE "off"]
    /\ c_html = [t \in Threads |-> <<>>]
    /\ c_parts = [t \in Threads |-> <<>>]
    /\ c_log = <<>>
    /\ c_left = calls

\* markdown_parts.append(part), then on to the next statement
AppendPart(t, part, next) ==
    /\ c_parts' = [c_parts EXCEPT ![t] = Append(@, part)]
    /\ c_pc' = [c_pc EXCEPT ![t] = next]
    /\ UNCHANGED <<c_soup, c_html, c_log, c_left, not_converter>>

\* The call of thread t ends with the outcome out
EndCall(t, out) ==
    /\ c_log' = Append(c_log, [html |-> c_html[t], out |-> out])
    /\ c_pc' = [c_pc EXCEPT ![t] = "idle"]
    /\ c_parts' = [c_parts EXCEPT ![t] = <<>>]
    /\ UNCHANGED <<c_soup, c_html, c_left, not_converter>>

\* convert_html is entered: self.soup = BeautifulSoup(...); markdown_parts = []
ParseHtml(t) ==
    /\ c_pc[t] = "idle"
    /\ c_left > 0
    /\ c_left' = c_left - 1
    /\ \E html_content \in Documents :
        /\ c_html' = [c_html EXCEPT ![t] = html_content]
        /\ c_soup' = soup_assigned(c_soup, html_content)
    /\ c_parts' = [c_parts EXCEPT ![t] = <<>>]
    /\ c_pc' = [c_pc EXCEPT ![t] = "metadata"]
    /\ UNCHANGED <<c_log, not_converter>>

\* markdown_parts.append(self._format_metadata(self._extract_metadata()))
AppendMetadata(t) ==
    /\ c_pc[t] = "metadata"
    /\ AppendPart(t, format_metadata(extract_metadata(c_soup)), "is_scanned")

\* is_scanned = self._is_scanned_document(), and the branch on it
CheckScanned(t) ==
    /\ c_pc[t] = "is_scanned"
    /\ c_pc' = [c_pc EXCEPT ![t] = IF is_scanned_document(c_soup)
                                   THEN "scanned" ELSE "abstract"]
    /\ UNCHANGED <<c_soup, c_html, c_parts, c_log, c_left, not_converter>>

\* markdown_parts.append(self._handle_scanned_document())
AppendScanned(t) ==
    /\ c_pc[t] = "scanned"
    /\ AppendPart(t, handle_scanned_document(c_soup), "join")

\* markdown_parts.append(self._extract_abstract())
AppendAbstract(t) ==
    /\ c_pc[t] = "abstract"
    /\ AppendPart(t, extract_abstract(c_soup), "main")

\* markdown_parts.append(self._extract_main_content())
AppendMainContent(t) ==
    /\ c_pc[t] = "main"
    /\ \E main \in {extract_main_content(c_soup)} :
        /\ ~main.raised
        /\ AppendPart(t, main.v, "references")

\* self._extract_main_content() raises, and convert_html with it
RaiseFromMainContent(t) ==
    /\ c_pc[t] = "main"
    /\ extract_main_content(c_soup).raised
    /\ EndCall(t, ValueError)

\* markdown_parts.append(self._extract_references())
AppendReferences(t) ==
    /\ c_pc[t] = "references"
    /\ AppendPart(t, extract_references(c_soup), "join")

\* return self._clean_markdown("\n\n".join(filter(None, markdown_parts)))
ReturnMarkdown(t) ==
    /\ c_pc[t] = "join"
    /\ EndCall(t, Ok(join_parts(c_parts[t])))

\* One step of one thread inside convert_html
ConverterNext ==
    \/ \E t \in Threads : ParseHtml(t)
    \/ \E t \in Threads : AppendMetadata(t)
    \/ \E t \in Threads : CheckScanned(t)
    \/ \E t \in Threads : AppendScanned(t)
    \/ \E t \in Threads : AppendAbstract(t)
    \/ \E t \in Threads : AppendMainContent(t)
    \/ \E t \in Threads : RaiseFromMainContent(t)
    \/ \E t \in Threads : AppendReferences(t)
    \/ \E t \in Threads : ReturnMarkdown(t)

\* ------------------------------------------------------- the API's pipelines

NCBI_CONCURRENCY == 3
MaxTasks == 4

\* The single-conversion requests and batch jobs the event loop runs
Tasks == 1..MaxTasks

\* The application not started
ApiIdle ==
    /\ a_sem = 0
    /\ a_pc = [k \in Tasks |-> "off"]
    /\ a_kind = [k \in Tasks |-> "pmid"]
    /\ a_trace = [k \in Tasks |-> [on |-> FALSE, steps |-> <<>>]]

\* lifespan: _ncbi_semaphore = asyncio.Semaphore(NCBI_CONCURRENCY); no
\* request has arrived; the pipelines of the tasks in observed are recorded
ApiStarted(running, observed) ==
    /\ a_sem = NCBI_CONCURRENCY
    /\ a_pc = [k \in Tasks |-> IF k \in running THEN "idle" ELSE "off"]
    /\ a_kind = [k \in Tasks |-> "pmid"]
    /\ a_trace = [k \in Tasks |-> [on |-> k \in observed, steps |-> <<>>]]

\* The application started, every task free to run
ApiInit == ApiStarted(Tasks, {})

\* can_acquire of a gate that admits every caller
can_acquire_always(value) == TRUE

\* Semaphore.acquire() returns at once only while the value is positive
can_acquire(value) == value > 0

\* Where a pipeline of the kind begins: _convert_pmid resolves the
\* identifier first, _convert_pmcid fetches at once
first_wait(kind) == IF kind = "pmid" THEN "wait_resolve" ELSE "wait_fetch"

\* The trace with one more step, when the pipeline is observed
Observed(trace, step, out) ==
    IF trace.on THEN [trace EXCEPT !.steps = Append(@, [step |-> step, out |-> out])]
    ELSE trace

\* async with _ncbi_semaphore: entered, the collaborator call handed to the
\* executor
Acquire(k, calling) ==
    /\ can_acquire(a_sem)
    /\ a_sem' = a_sem - 1
    /\ a_pc' = [a_pc EXCEPT ![k] = calling]
    /\ UNCHANGED <<a_kind, a_trace, not_api>>

\* The pipeline goes on to its next statement after a call returned out
GoOn(k, step, out, next) ==
    /\ a_pc' = [a_pc EXCEPT ![k] = next]
    /\ a_trace' = [a_trace EXCEPT ![k] = Observed(@, step, out)]

\* _convert_pmid or _convert_pmcid returns its ConvertResult after a call
\* returned out: a request is answered; a batch job goes on to its next
\* identifier while one is left, and its pipeline starts afresh
ResultReturned(k, step, out, result) ==
    \E more \in BOOLEAN :
        /\ a_pc' = [a_pc EXCEPT ![k] = IF more THEN first_wait(a_kind[k]) ELSE "done"]
        /\ a_trace' = [a_trace EXCEPT ![k] =
                IF more THEN [@ EXCEPT !.steps = <<>>]
                ELSE Observed(Observed(@, step, out), "return", result)]

\* ConvertResult(error=...), markdown left None
Failed(error) == [error |-> error, markdown |-> None]

\* ConvertResult(markdown=...), error left None
Converted(markdown) == [error |-> None, markdown |-> markdown]

\* A request arrives, or a batch job starts: the first identifier's pipeline
\* is entered
StartTask(k) ==
    /\ a_pc[k] = "idle"
    /\ \E kind \in {"pmid", "pmcid"} :
        /\ a_kind' = [a_kind EXCEPT ![k] = kind]
        /\ a_pc' = [a_pc EXCEPT ![k] = first_wait(kind)]
    /\ UNCHANGED <<a_sem, a_trace, not_api>>

\* async with _ncbi_semaphore: get_pmcid_from_pmid is called
CallResolve(k) ==
    /\ a_pc[k] = "wait_resolve"
    /\ Acquire(k, "resolving")

\* absent with a value taken for absent only when it is not None
absent_never(value) == FALSE

\* "if pmcid is None", "if html is None"
absent(value) == value = None

\* get_pmcid_from_pmid returns and the semaphore is released; without a
\* PMCID the pipeline returns its error
ResolveReturns(k) ==
    /\ a_pc[k] = "resolving"
    /\ a_sem' = a_sem + 1
    /\ \E pmcid \in {None, "PMC1"} :
        IF absent(pmcid)
        THEN ResultReturned(k, "resolve", pmcid, Failed("No PMCID found"))
        ELSE GoOn(k, "resolve", pmcid, "wait_fetch")
    /\ UNCHANGED <<a_kind, not_api>>

\* async with _ncbi_semaphore: get_html_from_pmcid is called
CallFetch(k) ==
    /\ a_pc[k] = "wait_fetch"
    /\ Acquire(k, "fetching")

\* get_html_from_pmcid returns and the semaphore is released; without HTML
\* the pipeline returns its error
FetchReturns(k) ==
    /\ a_pc[k] = "fetching"
    /\ a_sem' = a_sem + 1
    /\ \E html \in {None, "html"} :
        IF absent(html)
        THEN ResultReturned(k, "fetch", html, Failed("Failed to fetch HTML"))
        ELSE GoOn(k, "fetch", html, "converting")
    /\ UNCHANGED <<a_kind, not_api>>

\* convert_html returns or raises in the executor, outside the semaphore;
\* with include_supplements the supplement fetch is next
ConvertReturns(k) ==
    /\ a_pc[k] = "converting"
    /\ \E converted \in BOOLEAN, include_supplements \in BOOLEAN :
        IF ~converted
        THEN ResultReturned(k, "convert", "raised",
                            Failed("HTML to markdown conversion failed"))
        ELSE IF include_supplements
        THEN GoOn(k, "convert", "markdown", "wait_supplement")
        ELSE ResultReturned(k, "convert", "markdown", Converted("markdown"))
    /\ UNCHANGED <<a_sem, a_kind, not_api>>

\* async with _ncbi_semaphore: format_supplement_as_markdown is called
CallSupplement(k) ==
    /\ a_pc[k] = "wait_supplement"
    /\ Acquire(k, "supplementing")

\* format_supplement_as_markdown returns and the semaphore is released; a
\* supplement that is not empty is appended to the markdown
SupplementReturns(k) ==
    /\ a_pc[k] = "supplementing"
    /\ a_sem' = a_sem + 1
    /\ \E supplement \in {"", "supplement"} :
        ResultReturned(k, "supplement", supplement,
                       Converted(IF supplement # "" THEN "markdown+supplement"
                                 ELSE "markdown"))
    /\ UNCHANGED <<a_kind, not_api>>

\* One step of one request or batch job
ApiNext ==
    \/ \E k \in Tasks : StartTask(k)
    \/ \E k \in Tasks : CallResolve(k)
    \/ \E k \in Tasks : ResolveReturns(k)
    \/ \E k \in Tasks : CallFetch(k)
    \/ \E k \in Tasks : FetchReturns(k)
    \/ \E k \in Tasks : ConvertReturns(k)
    \/ \E k \in Tasks : CallSupplement(k)
    \/ \E k \in Tasks : SupplementReturns(k)

\* The pipelines observed step by step
MaxPipelines == 2

\* The application started, MaxPipelines tasks free to run, all observed
PipelineInit == ApiStarted(1..MaxPipelines, 1..MaxPipelines)

\* ------------------------------------------------------- get_pmcid_from_pmid

\* cache_expiry_days: int = 30, in days; the clock counts days
cache_expiry_days == 30

\* use_cache: bool = True
use_cache == TRUE

\* The time of the call, late enough for an entry of the cache to have expired
StartTime == cache_expiry_days + 1

\* How long the requests and the waits between them may take
MaxTicks == 1

\* The identifiers handed in, as written by the caller, and how many
MaxPmids == 2
RawPmids == {<<"1">>, <<" ", "1">>, <<"2">>}
PmidLists == UNION {[1..n -> RawPmids] : n \in 0..MaxPmids}

\* batch_size: int = 200, or one identifier per request
BatchSizes == {1, 200}

\* The keys of the cache file: as this program writes them, or with
\* whitespace around them
FileKeys == {<<"1">>, <<"2", " ">>}

\* The "timestamp" of an entry of the cache file: datetime.now().isoformat()
\* of the time it was written, or no such key, or a string that is no ISO
\* date, or a JSON null
Timestamps ==
    {[form |-> "iso", t |-> t] :
        t \in {StartTime - cache_expiry_days - 1, StartTime - cache_expiry_days,
               StartTime - cache_expiry_days + 1}}
    \cup {[form |-> f, t |-> 0] : f \in {"missing", "malformed", "null"}}

\* The entries of the cache file
CacheEntries == [pmcid : {"PMC1", ""}, timestamp : Timestamps]

\* The cache files
CacheFiles == UNION {[keys -> CacheEntries] : keys \in SUBSET FileKeys}

\* d[k] = v of a dict
Put(d, k, v) == [x \in DOMAIN d \cup {k} |-> IF x = k THEN v ELSE d[x]]

\* {str(k).strip(): v for k, v in cache.items()}
NormalizeKeys(cache) ==
    [k \in {Strip(raw) : raw \in DOMAIN cache} |->
        cache[CHOOSE raw \in DOMAIN cache : Strip(raw) = k]]

\* _is_cache_entry_valid(entry, expiry_days): False without a "timestamp";
\* datetime.fromisoformat raises ValueError on a string that is no date,
\* which is caught, and TypeError on a value that is no string, which is not
is_cache_entry_valid(entry, now) ==
    CASE entry.timestamp.form = "missing" -> [raised |-> FALSE, v |-> FALSE]
      [] entry.timestamp.form = "malformed" -> [raised |-> FALSE, v |-> FALSE]
      [] entry.timestamp.form = "null" -> [raised |-> TRUE, v |-> FALSE]
      [] OTHER -> [raised |-> FALSE, v |-> now < entry.timestamp.t + cache_expiry_days]

\* cache[pmid].get("pmcid"), an empty or blank string made None
cached_pmcid(entry) == IF entry.pmcid = "" THEN None ELSE entry.pmcid

\* "pmid in cache and _is_cache_entry_valid(cache[pmid], cache_expiry_days)"
\* raises
LookupRaises(cache, pmid, now) ==
    use_cache /\ pmid \in DOMAIN cache /\ is_cache_entry_valid(cache[pmid], now).raised

\* "use_cache and pmid in cache and _is_cache_entry_valid(...)"
ServedFromCache(cache, pmid, now) ==
    use_cache /\ pmid \in DOMAIN cache /\ is_cache_entry_valid(cache[pmid], now).v

RECURSIVE LookupLoop(_, _, _, _)
\* "for pmid in pmids": results and pmids_to_fetch after the loop
LookupLoop(pmids, cache, now, loc) ==
    IF pmids = <<>> THEN loc
    ELSE LookupLoop(Tail(pmids), cache, now,
            IF ServedFromCache(cache, Head(pmids), now)
            THEN [loc EXCEPT !.results = Put(@, Head(pmids), cached_pmcid(cache[Head(pmids)]))]
            ELSE [loc EXCEPT !.pmids_to_fetch = Append(@, Head(pmids))])

\* No call of get_pmcid_from_pmid on its own
ResolverIdle ==
    /\ r_pc = "off"
    /\ r_args = <<>>
    /\ r_now = 0
    /\ r_file = <<>>
    /\ r_loc = <<>>
    /\ r_sent = <<>>

\* get_pmcid_from_pmid(pmids, batch_size=...) is called with a cache file on
\* the disk
ResolverCalled(files, later) ==
    /\ r_pc = "call"
    /\ r_args \in [pmids : PmidLists, batch_size : BatchSizes, later : later]
    /\ r_now = StartTime
    /\ r_file \in files
    /\ r_loc = <<>>
    /\ r_sent = <<>>

\* One call, with any cache file on the disk
ResolverInit == ResolverCalled(CacheFiles, {FALSE})

\* The identifiers are stripped, the cache is loaded and its keys stripped,
\* and every identifier is answered from the cache or put on pmids_to_fetch
LookupCache ==
    /\ r_pc = "call"
    /\ \E pmids \in {[i \in 1..Len(r_args.pmids) |-> Strip(r_args.pmids[i])]} :
       \E cache \in {IF use_cache THEN NormalizeKeys(r_file) ELSE <<>>} :
        IF \E i \in 1..Len(pmids) : LookupRaises(cache, pmids[i], r_now)
        THEN r_pc' = "raised" /\ r_loc' = r_loc
        ELSE /\ r_pc' = "fetching"
             /\ r_loc' = LookupLoop(pmids, cache, r_now,
                    [pmids |-> pmids, cache |-> cache, results |-> <<>>,
                     pmids_to_fetch |-> <<>>, i |-> 0, began |-> r_now])
    /\ UNCHANGED <<r_args, r_now, r_file, r_sent, not_resolver>>

\* pmids_to_fetch[i : i + batch_size]
BatchAt(loc, batch_size) ==
    SubSeq(loc.pmids_to_fetch, loc.i + 1, Min(loc.i + batch_size, Len(loc.pmids_to_fetch)))

\* RecordFailure leaving the cache as it was
RecordFailure_uncached(batch, timestamp, loc) ==
    [loc EXCEPT !.results =
        [x \in DOMAIN @ \cup {batch[j] : j \in 1..Len(batch)} |->
            IF \E j \in 1..Len(batch) : batch[j] = x THEN None ELSE @[x]]]

RECURSIVE RecordFailure(_, _, _)
\* "except Exception": every identifier of the batch is None in results
\* and, with the cache in use, cached as None with the time of the failure
RecordFailure(batch, timestamp, loc) ==
    IF batch = <<>> THEN loc
    ELSE RecordFailure(Tail(batch), timestamp,
            [loc EXCEPT
                !.results = Put(@, Head(batch), None),
                !.cache = IF use_cache
                          THEN Put(@, Head(batch),
                                   [pmcid |-> None,
                                    timestamp |-> [form |-> "iso", t |-> timestamp]])
                          ELSE @])

RECURSIVE RecordBatch(_, _, _, _)
\* results and cache after the records of a response and the identifiers
\* the response left out: found holds the identifiers answered with a PMCID
RecordBatch(batch, found, timestamp, loc) ==
    IF batch = <<>> THEN loc
    ELSE RecordBatch(Tail(batch), found, timestamp,
            [loc EXCEPT
                !.results = Put(@, Head(batch),
                                IF Head(batch) \in found THEN "PMC9" ELSE None),
                !.cache = IF use_cache
                          THEN Put(@, Head(batch),
                                   [pmcid |-> IF Head(batch) \in found THEN "PMC9" ELSE None,
                                    timestamp |-> [form |-> "iso", t |-> timestamp]])
                          ELSE @])

\* A request sent
Request(ids, failed, t) == [ids |-> ids, failed |-> failed, t |-> t]

\* One round of "for i in range(0, len(pmids_to_fetch), batch_size)": the
\* request goes out with the batch as its ids and the response answers some
\* of them with a PMCID
FetchBatch ==
    /\ r_pc = "fetching"
    /\ r_loc.i < Len(r_loc.pmids_to_fetch)
    /\ \E batch \in {BatchAt(r_loc, r_args.batch_size)} :
        /\ r_sent' = Append(r_sent, Request(batch, FALSE, r_now))
        /\ \E found \in SUBSET {batch[j] : j \in 1..Len(batch)} :
            r_loc' = [RecordBatch(batch, found, r_now, r_loc)
                        EXCEPT !.i = @ + r_args.batch_size]
    /\ UNCHANGED <<r_pc, r_args, r_now, r_file, not_resolver>>

\* One round in which requests.get, raise_for_status or response.json
\* raises
FetchBatchFails ==
    /\ r_pc = "fetching"
    /\ r_loc.i < Len(r_loc.pmids_to_fetch)
    /\ \E batch \in {BatchAt(r_loc, r_args.batch_size)} :
        /\ r_sent' = Append(r_sent, Request(batch, TRUE, r_now))
        /\ r_loc' = [RecordFailure(batch, r_now, r_loc)
                        EXCEPT !.i = @ + r_args.batch_size]
    /\ UNCHANGED <<r_pc, r_args, r_now, r_file, not_resolver>>

\* Time passes in a request or in time.sleep(delay)
Tick ==
    /\ r_pc = "fetching"
    /\ r_now < r_loc.began + MaxTicks
    /\ r_now' = r_now + 1
    /\ UNCHANGED <<r_pc, r_args, r_file, r_loc, r_sent, not_resolver>>

\* After the last batch: _save_cache(cache) when something was fetched, and
\* results is returned
SaveCache ==
    /\ r_pc = "fetching"
    /\ r_loc.i >= Len(r_loc.pmids_to_fetch)
    /\ r_file' = IF use_cache /\ r_loc.pmids_to_fetch # <<>> THEN r_loc.cache ELSE r_file
    /\ r_pc' = "returned"
    /\ UNCHANGED <<r_args, r_now, r_loc, r_sent, not_resolver>>

\* How long after a call the next one is made: within the expiry of what
\* the call cached, or at it
Waits == {cache_expiry_days - MaxTicks - 1, cache_expiry_days}

\* The same identifiers are asked for again later; the requests of the
\* call before stay on record
CallAgain ==
    /\ r_pc = "returned"
    /\ r_args.later
    /\ r_pc' = "call"
    /\ r_args' = [r_args EXCEPT !.later = FALSE]
    /\ \E wait \in Waits : r_now' = r_now + wait
    /\ r_loc' = <<>>
    /\ UNCHANGED <<r_file, r_sent, not_resolver>>

\* One step of the call
ResolverNext == LookupCache \/ FetchBatch \/ FetchBatchFails \/ Tick \/ SaveCache

\* One step of a call or from a call to the next
RepeatNext == ResolverNext \/ CallAgain

\* Two calls, the first with no cache file or one that holds a fresh entry
RepeatInit ==
    ResolverCalled({<<>>, <<"1">> :> [pmcid |-> "PMC1",
                                      timestamp |-> [form |-> "iso", t |-> StartTime - 1]]},
                   {TRUE})

\* ---------------------------------------------------------------- utils_bioc

\* The articles whose supplements are looked up
SupplementIds == {"PMC1", "PMC2"}

\* How many documents a BioC collection holds, and the documents: the name
\* of a supplementary file and the passages of text extracted from it
MaxDocs == 2
Filenames == {<<"s1", ".pdf">>, <<"s2", ".docx">>}
BiocDocs == [id : Filenames, passages : {<<>>, << <<"text">> >>}]
BiocData == UNION {[1..n -> BiocDocs] : n \in 0..MaxDocs}

\* What requests.get(url, timeout=30) gives: a status that is not 200, a
\* body shorter than 50 characters, a body that is no JSON, a BioC
\* collection, or a RequestException
Responses ==
    {[kind |-> k, data |-> <<>>] : k \in {"status", "short", "not_json", "exception"}}
    \cup {[kind |-> "json", data |-> data] : data \in BiocData}

\* The cache file of an article: none, one that is no JSON, or the dict
\* {"text": ...}, {"not_available": true} or {}
CacheStates ==
    {[kind |-> k, text |-> <<>>] : k \in {"none", "corrupt", "not_available", "empty"}}
    \cup {[kind |-> "text", text |-> <<"text">>]}

\* _save_cache(cache_path, {"not_available": True})
NotAvailable == [kind |-> "not_available", text |-> <<>>]

\* _save_cache(cache_path, {"text": text})
CachedText(text) == [kind |-> "text", text |-> text]

\* _extract_text_from_bioc_structured: a dict of filename and text for every
\* document that has a passage with text
extract_text_from_bioc_structured(data) ==
    LET kept == SelectSeq(data, LAMBDA doc : doc.passages # <<>>)
    IN  [k \in 1..Len(kept) |->
            [filename |-> kept[k].id, text |-> Join(<<"\n", "\n">>, kept[k].passages)]]

\* "\n\n".join(doc["text"] for doc in docs)
flat_text(docs) == Join(<<"\n", "\n">>, [k \in 1..Len(docs) |-> docs[k].text])

\* What a lookup gives back: its return value, whether a request went out,
\* and the cache file afterwards
Lookup(returned, requested, cache) ==
    [returned |-> returned, requested |-> requested, cache |-> cache]

\* fetch_bioc_supplement(pmcid, use_cache) with the cache file cache, the
\* service answering response
fetch_bioc_supplement(cache, with_cache, response) ==
    IF with_cache /\ cache.kind = "text" /\ cache.text # <<>>
    THEN Lookup(cache.text, FALSE, cache)
    ELSE IF with_cache /\ cache.kind = "not_available"
    THEN Lookup(None, FALSE, cache)
    ELSE IF response.kind = "exception" THEN Lookup(None, TRUE, cache)
    ELSE IF response.kind \in {"status", "short", "not_json"}
    THEN Lookup(None, TRUE, NotAvailable)
    ELSE LET all_text == flat_text(extract_text_from_bioc_structured(response.data))
         IN  IF all_text # <<>> THEN Lookup(all_text, TRUE, CachedText(all_text))
             ELSE Lookup(None, TRUE, NotAvailable)

RECURSIVE supplement_lines(_)
\* "for doc in docs": the heading of each file and its text
supplement_lines(docs) ==
    IF docs = <<>> THEN <<>>
    ELSE << <<"\n", "#", "#", "#", " ">> \o Head(docs).filename \o <<"\n">>,
            Head(docs).text >> \o supplement_lines(Tail(docs))

\* "## Supplementary Materials"
supplement_header == <<"#", "#", " ", "Supplementary", " ", "Materials">>

\* The section format_supplement_as_markdown returns for docs
supplement_section(docs) ==
    Join(<<"\n">>, <<supplement_header>> \o supplement_lines(docs))

\* format_supplement_as_markdown(pmcid, use_cache) with the cache file cache,
\* the service answering response: only a cached not_available is answered
\* without a request; raw_data stays None whatever the cache holds
format_supplement_as_markdown(cache, with_cache, response) ==
    IF with_cache /\ cache.kind = "not_available"
    THEN Lookup(None, FALSE, cache)
    ELSE IF response.kind # "json" THEN Lookup(None, TRUE, cache)
    ELSE LET docs == extract_text_from_bioc_structured(response.data)
         IN  IF docs = <<>> THEN Lookup(None, TRUE, cache)
             ELSE Lookup(supplement_section(docs), TRUE, CachedText(flat_text(docs)))

\* How many lookups are made
MaxLookups == 2

\* No supplement looked up
SupplementIdle ==
    /\ s_cache = <<>>
    /\ s_last = <<>>
    /\ s_left = 0

\* The cache directory as earlier runs left it
SupplementInit ==
    /\ s_cache \in [SupplementIds -> CacheStates]
    /\ s_last = <<>>
    /\ s_left = MaxLookups

\* A lookup with the function fn writes the cache file and is remembered
LookupDone(fn, pmcid, with_cache, lookup) ==
    /\ s_left' = s_left - 1
    /\ s_cache' = [s_cache EXCEPT ![pmcid] = lookup.cache]
    /\ s_last' = [fn |-> fn, pmcid |-> pmcid, use_cache |-> with_cache,
                  cache |-> s_cache[pmcid], requested |-> lookup.requested,
                  returned |-> lookup.returned]
    /\ UNCHANGED not_supplement

\* fetch_bioc_supplement(pmcid, use_cache) is called
FetchBiocSupplement ==
    /\ s_left > 0
    /\ \E pmcid \in SupplementIds, with_cache \in BOOLEAN, response \in Responses :
        LookupDone("fetch_bioc_supplement", pmcid, with_cache,
                   fetch_bioc_supplement(s_cache[pmcid], with_cache, response))

\* format_supplement_as_markdown(pmcid, use_cache) is called
FormatSupplementAsMarkdown ==
    /\ s_left > 0
    /\ \E pmcid \in SupplementIds, with_cache \in BOOLEAN, response \in Responses :
        LookupDone("format_supplement_as_markdown", pmcid, with_cache,
                   format_supplement_as_markdown(s_cache[pmcid], with_cache, response))

\* One lookup
SupplementNext == FetchBiocSupplement \/ FormatSupplementAsMarkdown

\* ------------------------------------------------ methods called on their own

\* No method called on its own
UnitIdle == u_fn = "" /\ u_in = <<>> /\ u_pc = "idle" /\ u_out = <<>>

\* The references checked: a cited work and its links
MaxLinks == 2

\* The addresses of the links: one host, two hosts, none of the three
LinkHrefs ==
    { <<"https://", "doi.org", "/", "x">>,
      <<"https://", "pmc.ncbi.nlm.nih.gov", "/", "x">>,
      <<"https://", "pubmed.ncbi.nlm.nih.gov", "/", "x">>,
      <<"https://", "pmc.ncbi.nlm.nih.gov", "/", "doi.org">>,
      <<"https://", "pubmed.ncbi.nlm.nih.gov", "/", "pmc.ncbi.nlm.nih.gov">>,
      <<"https://", "example.org", "/", "x">> }

\* The visible texts of the links
LinkTexts ==
    {<<"DOI">>, <<"doi">>, <<"PMC">>, <<"PubMed">>, <<"pubmed">>,
     <<"Article">>}

\* The link lists of at most MaxLinks links
LinkSeqs == UNION {[1..m -> [href : LinkHrefs, text : LinkTexts]] : m \in 0..MaxLinks}

\* The tree of <li><cite>c</cite><a href=..>..</a>...</li>
ReferenceNodes(links) ==
    <<Elem(0, "li", {}, NoAttrs), Elem(1, "cite", {}, NoAttrs), Text(2, <<"c">>)>>
    \o Concat([k \in 1..Len(links) |->
            <<Elem(1, "a", {}, "href" :> links[k].href),
              Text(2, <<" ">> \o links[k].text \o <<"\n">>)>>])

\* A reference about to be processed
ReferenceInit ==
    /\ u_fn = "_process_reference"
    /\ u_in \in LinkSeqs
    /\ u_pc = "call"
    /\ u_out = <<>>

\* One call of _process_reference on the <li>, its number 1
ProcessReference ==
    /\ u_fn = "_process_reference" /\ u_pc = "call"
    /\ \E d \in {ReferenceNodes(u_in)} :
        u_out' = [ref_text |-> process_reference(d, 1, 1),
                  link_parts |-> reference_links(d, find_all(d, 1,
                        {j \in DOMAIN d : d[j].tag = "a"
                                          /\ "href" \in DOMAIN d[j].attrs}))]
    /\ u_pc' = "returned"
    /\ UNCHANGED <<u_fn, u_in, not_unit>>

\* The paragraphs checked: one anchor, inside at most MaxWrappers wrappers
\* that process_element does not know, inside a formatting element or not,
\* with or without text around it
MaxWrappers == 2
AnchorHrefs == {<<>>, <<"#", "r1">>, <<"https://", "example.org", "/", "x">>}
ParagraphShapes ==
    [wrappers : 0..MaxWrappers, format : {"none", "em", "strong", "sub", "sup"},
     href : AnchorHrefs, label : {<<"1">>, <<"see", " ", "Fig">>},
     before : BOOLEAN, after : BOOLEAN]

\* The tree of <p>before<span>..<em><a href=..>label</a></em>..</span>after</p>
ParagraphNodes(sh) ==
    <<Elem(0, "p", {}, NoAttrs)>>
    \o (IF sh.before THEN <<Text(1, <<"Before", " ">>)>> ELSE <<>>)
    \o [k \in 1..sh.wrappers |-> Elem(k, "span", {}, NoAttrs)]
    \o (IF sh.format # "none" THEN <<Elem(sh.wrappers + 1, sh.format, {}, NoAttrs)>>
        ELSE <<>>)
    \o With(sh.wrappers + (IF sh.format # "none" THEN 2 ELSE 1), LAMBDA depth :
        <<Elem(depth, "a", {},
               IF sh.href = <<>> THEN NoAttrs ELSE "href" :> sh.href),
          Text(depth + 1, sh.label)>>)
    \o (IF sh.after THEN <<Text(1, <<" ", "after">>)>> ELSE <<>>)

\* A paragraph about to be processed
ParagraphInit ==
    /\ u_fn = "_process_paragraph"
    /\ u_in \in ParagraphShapes
    /\ u_pc = "call"
    /\ u_out = <<>>

\* One call of _process_paragraph on the <p>
ProcessParagraph ==
    /\ u_fn = "_process_paragraph" /\ u_pc = "call"
    /\ u_out' = process_paragraph(ParagraphNodes(u_in), 1)
    /\ u_pc' = "returned"
    /\ UNCHANGED <<u_fn, u_in, not_unit>>

\* The reference lists checked: at most MaxItems items without a <cite>,
\* each the text of the cited work and one link, the link a child of the item
\* or inside at most MaxNest elements of it
MaxItems == 2
MaxNest == 1
ItemShapes ==
    [nest : 0..MaxNest, text : {<<"DOI">>, <<"Full", " ", "text">>},
     href : {<<"https://", "doi.org", "/", "x">>, <<"https://", "example.org", "/", "x">>},
     tail : BOOLEAN]
ItemSeqs == UNION {[1..n -> ItemShapes] : n \in 1..MaxItems}

\* The tree of <li>Smith. <span><a href=..>text</a></span> 2020</li>
ItemNodes(sh) ==
    <<Elem(2, "li", {}, NoAttrs), Text(3, <<"Smith", ".", " ">>)>>
    \o [k \in 1..sh.nest |-> Elem(2 + k, "span", {}, NoAttrs)]
    \o <<Elem(3 + sh.nest, "a", {}, "href" :> sh.href), Text(4 + sh.nest, sh.text)>>
    \o (IF sh.tail THEN <<Text(3, <<" ", "2020">>)>> ELSE <<>>)

\* The tree of <section class="ref-list"><ul class="ref-list">items</ul></section>
RefListNodes(items) ==
    <<Elem(0, "section", {"ref-list"}, NoAttrs), Elem(1, "ul", {"ref-list"}, NoAttrs)>>
    \o Concat([k \in 1..Len(items) |-> ItemNodes(items[k])])

\* A reference list about to be extracted
RefListInit ==
    /\ u_fn = "_extract_references"
    /\ u_in \in ItemSeqs
    /\ u_pc = "call"
    /\ u_out = <<>>

\* One call of _extract_references; the citation text of every item is kept
\* beside the section returned
ExtractReferences ==
    /\ u_fn = "_extract_references" /\ u_pc = "call"
    /\ \E d \in {RefListNodes(u_in)} :
        u_out' = [markdown |-> extract_references(d),
                  cites |-> With(find_all(d, find_ref_list(d), Named(d, {"li"})),
                        LAMBDA items : [k \in 1..Len(items) |->
                            cite_text(d, items[k], find(d, items[k], Named(d, {"cite"})))])]
    /\ u_pc' = "returned"
    /\ UNCHANGED <<u_fn, u_in, not_unit>>

\* The fragments joined: the metadata block of a document with or without
\* a title, then at most MaxFragments fragments of at most MaxFragmentLen
\* characters, newlines and spaces among them
MaxFragments == 2
MaxFragmentLen == 2

\* The metadata dictionaries whose blocks open the fragments
MetadataSamples ==
    { [keys |-> {"authors", "pmcid"}, val |-> <<>>, authors |-> <<>>,
       pmcid |-> <<>>],
      [keys |-> {"title", "authors", "pmcid"}, val |-> "title" :> <<"t">>,
       authors |-> <<>>, pmcid |-> <<"PMC", "1">>] }

\* The texts an extractor may return
Fragments == UNION {[1..n -> {"a", "\n", " "}] : n \in 0..MaxFragmentLen}

\* markdown_parts when the join begins
FragmentSeqs ==
    { <<format_metadata(m)>> \o rest :
        m \in MetadataSamples,
        rest \in UNION {[1..n -> Fragments] : n \in 0..MaxFragments} }

\* convert_html about to join its fragments
JoinInit ==
    /\ u_fn = "_clean_markdown"
    /\ u_in \in FragmentSeqs
    /\ u_pc = "call"
    /\ u_out = <<>>

\* The last two statements of convert_html: the join and _clean_markdown
JoinAndClean ==
    /\ u_fn = "_clean_markdown" /\ u_pc = "call"
    /\ u_out' = join_parts(u_in)
    /\ u_pc' = "returned"
    /\ UNCHANGED <<u_fn, u_in, not_unit>>

\* The documents converted whole: which scanned signals they carry (a
\* scanned-pages section, an ncbi_type meta tag of one value or another, a
\* figure of class fig-scanned or of no class), where
\* their title and their PMCID stand, whether they name a journal, and which
\* of the abstract, the body and the reference list they have
DocumentShapes ==
    [section : BOOLEAN, meta : {"scanpage", "article", "none"}, figure : BOOLEAN,
     title : {"meta", "page", "none"}, pmcid : {"canonical", "text", "none"},
     journal : BOOLEAN,
     abstract : BOOLEAN, body : BOOLEAN, references : BOOLEAN]

\* The head of a document of the shape
DocumentHead(sh) ==
    (CASE sh.title = "meta" -> <<Meta(<<"citation_title">>, <<"Study">>)>>
       [] sh.title = "page" -> Leaf("title", {}, <<"Study", " ", "-", " ", "PMC">>)
       [] OTHER -> <<>>)
    \o (IF sh.journal THEN <<Meta(<<"citation_journal_title">>, <<"Journal">>)>>
        ELSE <<>>)
    \o (IF sh.pmcid = "canonical"
        THEN <<StartTag("link", {}, ("rel" :> <<"canonical">>)
                 @@ ("href" :> <<"https", ":", "/", "/", "pmc.ncbi.nlm.nih.gov",
                                 "/", "articles", "/", "PMC", "1", "/">>))>>
        ELSE <<>>)
    \o (IF sh.meta # "none" THEN <<Meta(<<"ncbi_type">>, <<sh.meta>>)>> ELSE <<>>)

\* The scanned page of a document of the shape: a figure with an image, of
\* class fig-scanned or not, inside a scanned-pages section or not
DocumentPages(sh) ==
    IF ~sh.section /\ ~sh.figure THEN <<>>
    ELSE (IF sh.section THEN <<StartTag("section", {"scanned-pages"}, NoAttrs)>>
          ELSE <<>>)
         \o <<StartTag("figure", IF sh.figure THEN {"fig-scanned"} ELSE {}, NoAttrs),
              StartTag("img", {}, "src" :> <<"/", "page", ".", "jpg">>),
              EndTag("figure")>>
         \o (IF sh.section THEN <<EndTag("section")>> ELSE <<>>)

\* The HTML text of a document of the shape
DocumentOf(sh) ==
    DocumentHead(sh)
    \o (IF sh.pmcid = "text"
        THEN Leaf("span", {}, <<"PMCID", ":", " ", "PMC", "7">>) ELSE <<>>)
    \o (IF sh.abstract THEN ArticleAbstract("1") ELSE <<>>)
    \o (IF sh.body THEN ArticleBody("1", <<>>) ELSE <<>>)
    \o DocumentPages(sh)
    \o (IF sh.references THEN ArticleReferences("1") ELSE <<>>)

\* A document about to be converted
DocumentInit ==
    /\ u_fn = "convert_html"
    /\ u_in \in DocumentShapes
    /\ u_pc = "call"
    /\ u_out = <<>>

\* One call of convert_html on the document, by one thread on a converter
\* no other thread uses: the metadata dictionary, is_scanned and the string
\* returned
ConvertDocument ==
    /\ u_fn = "convert_html" /\ u_pc = "call"
    /\ \E d \in {soup_assigned(<<>>, DocumentOf(u_in))} :
        u_out' = [metadata |-> extract_metadata(d),
                  is_scanned |-> is_scanned_document(d),
                  markdown |-> convert_tree(d)]
    /\ u_pc' = "returned"
    /\ UNCHANGED <<u_fn, u_in, not_unit>>

\* --------------------------------- get_pmcid_from_pmid called concurrently

\* How many calls run at once in the executor's threads, each for one
\* identifier of its own
MaxCallers == 3
Callers == 1..MaxCallers

\* get_pmcid_from_pmid([pmid]) of the k-th caller
PmidOf(k) == <<ToString(k)>>

\* The cache files the calls may find: nothing, or fresh entries of the
\* first caller's identifier or of an identifier none of them asks for
SharedFiles ==
    UNION {[keys -> {[pmcid |-> "PMC1", timestamp |-> [form |-> "iso", t |-> StartTime]]}] :
            keys \in SUBSET {<<"0">>, <<"1">>}}

\* No concurrent calls
CallsIdle ==
    /\ p_file = <<>>
    /\ p_pc = <<>>
    /\ p_cache = <<>>

\* Every caller is about to call, with one cache file on the disk
CallsInit ==
    /\ p_file \in SharedFiles
    /\ p_pc = [k \in Callers |-> "call"]
    /\ p_cache = [k \in Callers |-> <<>>]

\* _load_cache() and the lookup of the caller's identifier in what it read
CallLoads ==
    \E k \in Callers :
        /\ p_pc[k] = "call"
        /\ p_pc' = [p_pc EXCEPT ![k] = "fetching"]
        /\ p_cache' = [p_cache EXCEPT ![k] =
                LookupLoop(<<PmidOf(k)>>, NormalizeKeys(p_file), StartTime,
                    [pmids |-> <<PmidOf(k)>>, cache |-> NormalizeKeys(p_file),
                     results |-> <<>>, pmids_to_fetch |-> <<>>, i |-> 0, began |-> StartTime])]
        /\ UNCHANGED <<p_file, not_calls>>

\* The caller's one request, answered with a PMCID, with none, or failing
CallFetches ==
    \E k \in Callers :
        /\ p_pc[k] = "fetching"
        /\ p_cache[k].i < Len(p_cache[k].pmids_to_fetch)
        /\ \E loc \in {RecordBatch(<<PmidOf(k)>>, {PmidOf(k)}, StartTime, p_cache[k]),
                       RecordBatch(<<PmidOf(k)>>, {}, StartTime, p_cache[k]),
                       RecordFailure(<<PmidOf(k)>>, StartTime, p_cache[k])} :
            p_cache' = [p_cache EXCEPT ![k] = [loc EXCEPT !.i = @ + 200]]
        /\ UNCHANGED <<p_file, p_pc, not_calls>>

\* _save_cache(cache) of the caller's local cache when it fetched, and the
\* return
CallSaves ==
    \E k \in Callers :
        /\ p_pc[k] = "fetching"
        /\ p_cache[k].i >= Len(p_cache[k].pmids_to_fetch)
        /\ p_file' = IF use_cache /\ p_cache[k].pmids_to_fetch # <<>>
                     THEN p_cache[k].cache ELSE p_file
        /\ p_pc' = [p_pc EXCEPT ![k] = "returned"]
        /\ UNCHANGED <<p_cache, not_calls>>

\* One step of one of the calls
CallsNext == CallLoads \/ CallFetches \/ CallSaves

\* ------------------------------------------------ batch jobs and their polls

\* How many identifiers a batch holds (max_length=50 in the program), how
\* many polls are followed, and the identifiers
MaxJobItems == 2
MaxPolls == 2
JobIds == {"1", "2"}
JobLists == UNION {[1..n -> JobIds] : n \in 0..MaxJobItems}

\* Optional[List[ConvertResult]]: None, or a list
Null == [null |-> TRUE]
List(items) == [null |-> FALSE, items |-> items]

\* The ConvertResult of one identifier: its id, and an error or a markdown
ItemResults(id) ==
    {[id |-> id, result |-> r] : r \in {Failed("No PMCID found"),
                                         Failed("Failed to fetch HTML"),
                                         Failed("conversion failed"),
                                         Converted("markdown")}}

\* No batch job
JobsIdle ==
    /\ j_job = [status |-> "none"]
    /\ j_ids = <<>>
    /\ j_task = [pc |-> "none", results |-> <<>>]
    /\ j_polls = <<>>

\* _jobs = {}
JobsInit == JobsIdle

\* batch_convert_pmids, batch_convert_pmcids: the record is stored and the
\* task created
SubmitJob ==
    /\ j_job.status = "none"
    /\ \E ids \in JobLists :
        /\ j_ids' = ids
        /\ j_job' = [status |-> "pending", total |-> Len(ids),
                     completed_count |-> 0, results |-> Null]
    /\ j_task' = [pc |-> "created", results |-> <<>>]
    /\ UNCHANGED <<j_polls, not_jobs>>

\* AfterItem with the results stored only at a later step
AfterItem_unfinished(job, results) ==
    [job EXCEPT !.completed_count = Len(results),
                !.status = IF Len(results) = job.total THEN "completed" ELSE @]

\* The record when the task next awaits or ends, results being its local
\* list: completed_count = len(results); past the last identifier the loop
\* ends and status and results are set with no await between them
AfterItem(job, results) ==
    IF Len(results) = job.total
    THEN [job EXCEPT !.completed_count = Len(results), !.status = "completed",
                     !.results = List(results)]
    ELSE [job EXCEPT !.completed_count = Len(results)]

\* The task when it next awaits or ends
TaskAfter(job, results) ==
    [pc |-> IF Len(results) = job.total THEN "ended" ELSE "converting",
     results |-> results]

\* _run_batch_pmid_job, _run_batch_pmcid_job begin: status = "running" and
\* the first identifier's conversion is awaited; with no identifier the job
\* is completed at once
StartJob ==
    /\ j_task.pc = "created"
    /\ j_job' = IF j_job.total = 0
                THEN AfterItem(j_job, <<>>)
                ELSE [j_job EXCEPT !.status = "running"]
    /\ j_task' = TaskAfter(j_job, <<>>)
    /\ UNCHANGED <<j_ids, j_polls, not_jobs>>

\* "result = await _convert_pmid(...)" returns a ConvertResult: it is
\* appended and counted, and the next conversion is awaited or the job ends
ItemDone ==
    /\ j_task.pc = "converting"
    /\ \E result \in ItemResults(j_ids[Len(j_task.results) + 1]) :
       \E results \in {Append(j_task.results, result)} :
        /\ j_job' = AfterItem(j_job, results)
        /\ j_task' = TaskAfter(j_job, results)
    /\ UNCHANGED <<j_ids, j_polls, not_jobs>>

\* The awaited conversion raises: an exception that get_pmcid_from_pmid,
\* get_html_from_pmcid or format_supplement_as_markdown let through is
\* caught nowhere in _convert_pmid or in the job, and the task ends with it
ItemRaises ==
    /\ j_task.pc = "converting"
    /\ j_task' = [j_task EXCEPT !.pc = "raised"]
    /\ UNCHANGED <<j_job, j_ids, j_polls, not_jobs>>

\* get_job_status: the record as it is, or 404 while there is none
PollJob ==
    /\ Len(j_polls) < MaxPolls
    /\ j_polls' = Append(j_polls, j_job)
    /\ UNCHANGED <<j_job, j_ids, j_task, not_jobs>>

\* One step of the job or of a client polling it
JobsNext == SubmitJob \/ StartJob \/ ItemDone \/ ItemRaises \/ PollJob

\* The event loop runs every task that can run: a created task is started,
\* and an awaited conversion returns or raises
JobsFairness ==
    /\ WF_vars(StartJob)
    /\ WF_vars(ItemDone \/ ItemRaises)

\* ------------------------------------------------------------ PubMedDownloader

\* How many calls of the downloader are followed, and how many runs of
\* add_supplements_to_existing one after the other
MaxDownloads == 1
MaxRuns == 2

\* The HTML texts the directory and PubMed Central hold, by a name for
\* each: an article, and an article whose table convert_html raises on
GoodHtml == "article"
BadHtml == "broken"
HtmlTexts == {GoodHtml, BadHtml}
HtmlText(name) ==
    IF name = GoodHtml THEN Article("1", <<>>)
    ELSE Article("1", ArticleTable("1", <<"x">>))

\* The PMCIDs the resolver answers with, and the PMIDs asked for, as the
\* caller writes them
Pmcids == {"PMC1", "PMC2"}
CallerPmids == {<<"1">>, <<" ", "2">>}
CallerLists == {<< <<"1">> >>, << <<"1">>, <<" ", "2">> >>}

\* The files save_dir/html may hold before a call: what pmcids_to_html wrote
\* there, and a file that is no .html file; each holds a text convert_html
\* converts
HtmlDirs ==
    UNION {[names -> {GoodHtml}] : names \in SUBSET {<<"PMC1", ".html">>, <<"README", ".md">>}}

\* "## Supplementary Materials\n\nNo supplementary materials found.\n" after
\* two newlines
supplement_stub ==
    <<"\n", "\n">> \o supplement_header
    \o <<"\n", "\n", "No supplementary materials found.", "\n">>

\* What the files of save_dir/markdown may hold before a call: a text
\* without a supplement section, or one the stub was appended to
OldContents == {<<"old", " ", "text", "\n">>, <<"old", " ", "text">> \o supplement_stub}
MarkdownDirs ==
    {md \in UNION {[names -> OldContents] :
                    names \in SUBSET {<<"PMC1", ".md">>, <<"PMID", "1", ".md">>,
                                      <<"README", ".md">>}} :
        \A name \in {<<"PMID", "1", ".md">>, <<"README", ".md">>} :
            name \in DOMAIN md => md[name] = <<"old", " ", "text", "\n">>}

\* The articles the BioC service knows, and what it answers for them: a
\* failure, no supplement, or documents under the names of their files
ServedIds == {<<"PMC1">>}
ServedResponses ==
    {[kind |-> k, data |-> <<>>] : k \in {"status", "exception"}}
    \cup {[kind |-> "json", data |-> <<[id |-> f, passages |-> << <<"text">> >>]>>] :
            f \in Filenames}

\* The cache file of an article, kind "none" when there is no file
CacheOf(cache, id) ==
    IF id \in DOMAIN cache THEN cache[id] ELSE [kind |-> "none", text |-> <<>>]

\* The cache directory with the file of an article as a lookup left it
PutCache(cache, id, entry) ==
    IF entry.kind = "none" THEN [x \in DOMAIN cache \ {id} |-> cache[x]]
    ELSE Put(cache, id, entry)

\* requests.get for an article: a service that does not know it answers 404
ResponseOf(server, id) ==
    IF id \in DOMAIN server THEN server[id] ELSE [kind |-> "status", data |-> <<>>]

\* filename.endswith(ext)
endswith(name, ext) == name # <<>> /\ name[Len(name)] = ext

\* check_existing_markdown_pmcids: filename[:-3] of the files ending in .md
check_existing_markdown_pmcids(md) ==
    {SubSeq(f, 1, Len(f) - 1) : f \in {g \in DOMAIN md : endswith(g, ".md")}}

\* check_existing_html_pmcids: filename[:-5] of the files ending in .html
check_existing_html_pmcids(html) ==
    {SubSeq(f, 1, Len(f) - 1) : f \in {g \in DOMAIN html : endswith(g, ".html")}}

\* "if supplement": format_supplement_as_markdown returned a string, which
\* it does when the cache does not say not_available and the service
\* answered documents with text
supplement_found(cache, response) ==
    /\ cache.kind # "not_available"
    /\ response.kind = "json"
    /\ extract_text_from_bioc_structured(response.data) # <<>>

\* append_supplement with the stub appended whatever was fetched
append_supplement_stub(markdown, cache, response) ==
    RStrip(markdown) \o supplement_stub

\* markdown.rstrip() + "\n\n" + supplement + "\n", or the stub when
\* format_supplement_as_markdown(pmcid) gave none
append_supplement(markdown, cache, response) ==
    IF supplement_found(cache, response)
    THEN RStrip(markdown) \o <<"\n", "\n">>
         \o format_supplement_as_markdown(cache, TRUE, response).returned \o <<"\n">>
    ELSE RStrip(markdown) \o supplement_stub

\* What a markdown was made of: the converted text, and whether a supplement
\* was there to fetch and its section
Produced(markdown, converted, cache, response) ==
    [markdown |-> markdown, converted |-> converted,
     found |-> supplement_found(cache, response),
     supplement |-> IF supplement_found(cache, response)
                    THEN supplement_section(extract_text_from_bioc_structured(response.data))
                    ELSE <<>>]

\* The HTML files local_html_to_markdown converts: all of them, or with
\* overwrite off those whose name without ".html" is no existing markdown
htmls_to_convert_all(html, md, overwrite) == DOMAIN html
htmls_to_convert(html, md, overwrite) ==
    IF overwrite THEN DOMAIN html
    ELSE {h \in DOMAIN html :
            ReplaceAtom(h, ".html", <<>>) \notin check_existing_markdown_pmcids(md)}

\* os.path.basename(html_path).replace(".html", ".md")
md_name(h) == ReplaceAtom(h, ".html", <<".md">>)

\* local_html_to_markdown(save_dir, overwrite): the markdown directory, the
\* cache directory and what was produced, every file converted, given its
\* supplement section or the stub, and written
local_html_to_markdown(html, md, cache, server, overwrite) ==
    LET htmls == htmls_to_convert(html, md, overwrite)
        pmcid(h) == ReplaceAtom(h, ".html", <<>>)
        made(h) == append_supplement(d_converted[html[h]].v, CacheOf(cache, pmcid(h)),
                                     ResponseOf(server, pmcid(h)))
        source(name) == CHOOSE h \in htmls : md_name(h) = name
    IN  [md |-> [name \in DOMAIN md \cup {md_name(h) : h \in htmls} |->
                    IF \E h \in htmls : md_name(h) = name THEN made(source(name))
                    ELSE md[name]],
         cache |-> [id \in {x \in DOMAIN cache \cup {pmcid(h) : h \in htmls} :
                              (\E h \in htmls : pmcid(h) = x)
                                  => format_supplement_as_markdown(CacheOf(cache, x), TRUE,
                                        ResponseOf(server, x)).cache.kind # "none"} |->
                        IF \E h \in htmls : pmcid(h) = id
                        THEN format_supplement_as_markdown(CacheOf(cache, id), TRUE,
                                ResponseOf(server, id)).cache
                        ELSE cache[id]],
         produced |-> {Produced(made(h), d_converted[html[h]].v,
                                CacheOf(cache, pmcid(h)), ResponseOf(server, pmcid(h))) :
                        h \in htmls}]

\* pmcids_to_html(pmcids, save_dir): the HTML directory with <pmcid>.html
\* written for every PMCID that had no file and whose HTML was fetched
pmcids_to_html(html, pmcids, fetched, text) ==
    LET new == {p \in pmcids : <<p>> \notin check_existing_html_pmcids(html) /\ p \in fetched}
    IN  [name \in DOMAIN html \cup {<<p, ".html">> : p \in new} |->
            IF \E p \in new : name = <<p, ".html">> THEN text ELSE html[name]]

\* The abstract get_abstract_markdown_from_pmid gives for a PMID
abstract_markdown(pmid) == <<"#", " ", "Abstract", " ">> \o pmid \o <<"\n">>

\* f"PMID{pmid}"
pmid_stem(pmid) == <<"PMID">> \o pmid

\* The abstract fallback of pmids_to_markdown: PMID<pmid>.md written with
\* the stub for every PMID left without a PMCID whose abstract was fetched
abstract_fallback(md, pmids, abstracts) ==
    LET new == {p \in pmids : p \in abstracts}
    IN  [name \in DOMAIN md \cup {pmid_stem(p) \o <<".md">> : p \in new} |->
            IF \E p \in new : name = pmid_stem(p) \o <<".md">>
            THEN RStrip(abstract_markdown(CHOOSE p \in new : name = pmid_stem(p) \o <<".md">>))
                 \o supplement_stub
            ELSE md[name]]

\* "## Supplementary Materials" in content, and content.index of it
HasPart(content, part) ==
    \E i \in 1..(Len(content) - Len(part) + 1) : SubSeq(content, i, i + Len(part) - 1) = part
IndexOf(content, part) ==
    CHOOSE i \in 1..(Len(content) - Len(part) + 1) :
        /\ SubSeq(content, i, i + Len(part) - 1) = part
        /\ \A j \in 1..(i - 1) : SubSeq(content, j, j + Len(part) - 1) # part

\* re.search(r"^###\s+.*\.pdf\s*$", content, re.MULTILINE): a line opens
\* with ### and whitespace, and ".pdf" stands later with nothing but
\* whitespace up to the end of its line
has_bioc_supplements(content) ==
    \E i \in 1..Len(content) :
        /\ i = 1 \/ content[i - 1] = "\n"
        /\ i + 2 <= Len(content)
        /\ SubSeq(content, i, i + 2) = <<"#", "#", "#">>
        /\ \E w \in (i + 3)..Len(content) :
            /\ \A k \in (i + 3)..w : content[k] \in Whitespace
            /\ \E j \in (w + 1)..Len(content) :
                /\ content[j] = ".pdf"
                /\ \A k \in (w + 1)..(j - 1) : content[k] # "\n"
                /\ \E e \in j..Len(content) :
                    /\ \A k \in (j + 1)..e : content[k] \in Whitespace
                    /\ e = Len(content) \/ content[e + 1] = "\n"

\* prefetch_bioc_supplements(pmcids): an article with a readable cache file
\* is left alone; the others are fetched with use_cache=False
prefetch_bioc_supplements(cache, server, ids) ==
    LET after(id) ==
            IF CacheOf(cache, id).kind \notin {"none", "corrupt"} THEN CacheOf(cache, id)
            ELSE fetch_bioc_supplement([kind |-> "none", text |-> <<>>], FALSE,
                                       ResponseOf(server, id)).cache
    IN  [id \in {x \in DOMAIN cache \cup ids : after(x).kind # "none"} |-> after(id)]

\* The content of one markdown file after add_supplements_to_existing
with_supplement_added(content, cache, response, overwrite) ==
    IF HasPart(content, supplement_header) /\ has_bioc_supplements(content) /\ ~overwrite
    THEN content
    ELSE IF ~supplement_found(cache, response) THEN content
    ELSE LET kept == IF HasPart(content, supplement_header) /\ overwrite
                     THEN RStrip(SubSeq(content, 1, IndexOf(content, supplement_header) - 1))
                     ELSE content
         IN  RStrip(kept) \o <<"\n", "\n">>
             \o format_supplement_as_markdown(cache, TRUE, response).returned \o <<"\n">>

\* add_supplements_to_existing(save_dir, overwrite): the markdown directory
\* and the cache directory afterwards
add_supplements_to_existing(md, cache, server, overwrite) ==
    LET md_files == {f \in DOMAIN md : endswith(f, ".md")}
        pmcid(f) == ReplaceAtom(f, ".md", <<>>)
        fetched == prefetch_bioc_supplements(cache, server, {pmcid(f) : f \in md_files})
        looked(f) == HasPart(md[f], supplement_header) /\ has_bioc_supplements(md[f])
                     /\ ~overwrite
        after(id) == format_supplement_as_markdown(CacheOf(fetched, id), TRUE,
                                                   ResponseOf(server, id)).cache
        asked == {pmcid(f) : f \in {g \in md_files : ~looked(g)}}
    IN  [md |-> [f \in DOMAIN md |->
                    IF f \in md_files
                    THEN with_supplement_added(md[f], CacheOf(fetched, pmcid(f)),
                                               ResponseOf(server, pmcid(f)), overwrite)
                    ELSE md[f]],
         cache |-> [id \in {x \in DOMAIN fetched \cup asked :
                              IF x \in asked THEN after(x).kind # "none" ELSE TRUE} |->
                        IF id \in asked THEN after(id) ELSE fetched[id]]]

\* What get_html_from_pmcid gives: None, or an HTML text
HtmlAnswers ==
    {[none |-> TRUE, v |-> ""]} \cup {[none |-> FALSE, v |-> h] : h \in HtmlTexts}

\* Optional[str] returned by the single conversions
NoMarkdown == [none |-> TRUE, v |-> <<>>]
Markdown(v) == [none |-> FALSE, v |-> v]

\* No call made yet
NoCall ==
    [fn |-> "none", overwrite |-> FALSE, before |-> <<>>,
     prev |-> [fn |-> "none", overwrite |-> FALSE], produced |-> {}, out |-> NoMarkdown]

\* No downloader at work
DownloaderIdle ==
    /\ d_html = <<>>
    /\ d_md = <<>>
    /\ d_cache = <<>>
    /\ d_server = <<>>
    /\ d_call = NoCall
    /\ d_left = 0
    /\ d_converted = <<>>

\* PubMedDownloader(): the converter, and the directories as earlier runs
\* and the user left them; calls calls of its methods follow
DownloaderCreated(calls) ==
    /\ d_converted = [html \in HtmlTexts |-> convert_html(HtmlText(html))]
    /\ d_html \in HtmlDirs
    /\ d_md \in MarkdownDirs
    /\ d_cache \in {<<>>, <<"PMC1">> :> NotAvailable}
    /\ d_server \in [ServedIds -> ServedResponses]
    /\ d_call = NoCall
    /\ d_left = calls

\* A downloader whose methods are called
DownloaderInit == DownloaderCreated(MaxDownloads)

\* A downloader whose add_supplements_to_existing is run again and again
RunsInit == DownloaderCreated(MaxRuns)

\* A call ended: what it was, the markdown directory it found, the call
\* before it, the full-text markdowns it produced and what it returned
Called(fn, overwrite, produced, out) ==
    /\ d_left' = d_left - 1
    /\ d_call' = [fn |-> fn, overwrite |-> overwrite, before |-> d_md,
                  prev |-> [fn |-> d_call.fn, overwrite |-> d_call.overwrite],
                  produced |-> produced, out |-> out]

\* The HTML of an article converted and given its supplement section or the
\* stub: lines 37-55 of single_pmcid_to_markdown, 78-97 of
\* single_pmid_to_markdown
FullText(fn, pmcid, html) ==
    IF html.none \/ d_converted[html.v].raised
    THEN /\ Called(fn, FALSE, {}, NoMarkdown)
         /\ d_cache' = d_cache
    ELSE \E converted \in {d_converted[html.v].v}, cache \in {CacheOf(d_cache, <<pmcid>>)},
            response \in {ResponseOf(d_server, <<pmcid>>)} :
            \E markdown \in {append_supplement(converted, cache, response)} :
                /\ Called(fn, FALSE, {Produced(markdown, converted, cache, response)},
                          Markdown(markdown))
                /\ d_cache' = PutCache(d_cache, <<pmcid>>,
                        format_supplement_as_markdown(cache, TRUE, response).cache)

\* single_pmcid_to_markdown(pmcid)
SinglePmcidToMarkdown ==
    /\ d_left > 0
    /\ \E pmcid \in Pmcids, html \in HtmlAnswers :
        FullText("single_pmcid_to_markdown", pmcid, html)
    /\ UNCHANGED <<d_html, d_md, d_server, d_converted, not_downloader>>

\* single_pmid_to_markdown(pmid): the mapping of get_pmcid_from_pmid([pmid])
\* has the stripped identifier for its key and is read with the identifier
\* as given; without a PMCID the abstract alone is returned, or None
SinglePmidToMarkdown ==
    /\ d_left > 0
    /\ \E pmid \in CallerPmids, answer \in Pmcids \cup {None}, html \in HtmlAnswers,
          abstract \in BOOLEAN :
       \E pmcid \in {IF Strip(pmid) = pmid THEN answer ELSE None} :
        IF pmcid = None
        THEN /\ Called("single_pmid_to_markdown", FALSE, {},
                       IF abstract THEN Markdown(abstract_markdown(pmid)) ELSE NoMarkdown)
             /\ d_cache' = d_cache
        ELSE FullText("single_pmid_to_markdown", pmcid, html)
    /\ UNCHANGED <<d_html, d_md, d_server, d_converted, not_downloader>>

\* local_html_to_markdown(save_dir, overwrite)
LocalHtmlToMarkdown ==
    /\ d_left > 0
    /\ \E overwrite \in BOOLEAN :
       \E r \in {local_html_to_markdown(d_html, d_md, d_cache, d_server, overwrite)} :
        /\ Called("local_html_to_markdown", overwrite, r.produced, NoMarkdown)
        /\ d_md' = r.md
        /\ d_cache' = r.cache
    /\ UNCHANGED <<d_html, d_server, d_converted, not_downloader>>

\* pmids_to_markdown(pmids, save_dir, overwrite): the identifiers are
\* stripped and resolved, the PMCIDs without a markdown file are fetched
\* into save_dir/html, the directory is converted, and the PMIDs without a
\* PMCID and without a markdown file get their abstract
PmidsToMarkdown ==
    /\ d_left > 0
    /\ \E given \in CallerLists, overwrite \in BOOLEAN, fetched \in {{}, Pmcids} :
       \E pmids \in {{Strip(given[i]) : i \in 1..Len(given)}} :
       \E mapping \in [pmids -> Pmcids \cup {None}], abstracts \in {{}, pmids} :
       \E existing \in {check_existing_markdown_pmcids(d_md)} :
       \E valid_pmcids \in {{mapping[p] : p \in {q \in pmids : mapping[q] # None}}},
          pmids_without_pmcid \in {{p \in pmids : mapping[p] = None}} :
       \E html \in {pmcids_to_html(d_html,
                        IF overwrite THEN valid_pmcids
                        ELSE {c \in valid_pmcids : <<c>> \notin existing},
                        fetched, GoodHtml)} :
       \E r \in {local_html_to_markdown(html, d_md, d_cache, d_server, overwrite)} :
        /\ Called("pmids_to_markdown", overwrite, r.produced, NoMarkdown)
        /\ d_html' = html
        /\ d_md' = abstract_fallback(r.md,
                        IF overwrite THEN pmids_without_pmcid
                        ELSE {p \in pmids_without_pmcid : pmid_stem(p) \notin existing},
                        abstracts)
        /\ d_cache' = r.cache
    /\ UNCHANGED <<d_server, d_converted, not_downloader>>

\* add_supplements_to_existing(save_dir, overwrite)
AddSupplementsToExisting ==
    /\ d_left > 0
    /\ \E overwrite \in BOOLEAN :
       \E r \in {add_supplements_to_existing(d_md, d_cache, d_server, overwrite)} :
        /\ Called("add_supplements_to_existing", overwrite, {}, NoMarkdown)
        /\ d_md' = r.md
        /\ d_cache' = r.cache
    /\ UNCHANGED <<d_html, d_server, d_converted, not_downloader>>

\* One call of the downloader
DownloaderNext ==
    \/ SinglePmcidToMarkdown
    \/ SinglePmidToMarkdown
    \/ LocalHtmlToMarkdown
    \/ PmidsToMarkdown
    \/ AddSupplementsToExisting

\* ---------------------------------------------------------- specifications

\* Every part of the program but one at rest
AllIdleExcept(part) ==
    /\ part = "table" \/ TableIdle
    /\ part = "body" \/ BodyIdle
    /\ part = "converter" \/ ConverterIdle
    /\ part = "api" \/ ApiIdle
    /\ part = "unit" \/ UnitIdle
    /\ part = "resolver" \/ ResolverIdle
    /\ part = "supplement" \/ SupplementIdle
    /\ part = "calls" \/ CallsIdle
    /\ part = "jobs" \/ JobsIdle
    /\ part = "downloader" \/ DownloaderIdle

\* _convert_table_to_markdown applied to each table of the family
TableSpecInit ==
    TableInit
    /\ AllIdleExcept("table")
SpecTable == TableSpecInit /\ [][ConvertTable]_vars

\* _convert_table_to_markdown applied to each table of row groups
GroupSpecInit ==
    GroupTableInit
    /\ AllIdleExcept("table")
SpecGroups == GroupSpecInit /\ [][ConvertTable]_vars

\* _extract_main_content applied to each article body of the family
BodySpecInit ==
    BodyInit
    /\ AllIdleExcept("body")
SpecBody == BodySpecInit /\ [][ExtractMainContent]_vars

\* _extract_main_content applied to each body of headed sections
HeadingSpecInit ==
    HeadingInit
    /\ AllIdleExcept("body")
SpecHeadings == HeadingSpecInit /\ [][ExtractMainContent]_vars

\* convert_html called again and again by one thread
SeqInit ==
    ConverterInit({1}, MaxCalls)
    /\ AllIdleExcept("converter")
SpecSeq == SeqInit /\ [][ConverterNext]_vars

\* convert_html called by the threads of the executor, the converter shared:
\* as many calls as there are threads
ConcInit ==
    ConverterInit(Threads, MaxThreads)
    /\ AllIdleExcept("converter")
SpecConc == ConcInit /\ [][ConverterNext]_vars

\* _process_reference applied to each reference of the family
ReferenceSpecInit == ReferenceInit /\ AllIdleExcept("unit")
SpecReference == ReferenceSpecInit /\ [][ProcessReference]_vars

\* The join at the end of convert_html applied to each fragment list
JoinSpecInit == JoinInit /\ AllIdleExcept("unit")
SpecJoin == JoinSpecInit /\ [][JoinAndClean]_vars

\* convert_html applied to each document of the family of shapes
DocumentSpecInit == DocumentInit /\ AllIdleExcept("unit")
SpecDocument == DocumentSpecInit /\ [][ConvertDocument]_vars

\* _process_paragraph applied to each paragraph of the family
ParagraphSpecInit == ParagraphInit /\ AllIdleExcept("unit")
SpecParagraph == ParagraphSpecInit /\ [][ProcessParagraph]_vars

\* _extract_references applied to each reference list of the family
RefListSpecInit == RefListInit /\ AllIdleExcept("unit")
SpecRefList == RefListSpecInit /\ [][ExtractReferences]_vars

\* The pipelines of the API observed step by step
PipelineSpecInit ==
    PipelineInit
    /\ AllIdleExcept("api")
SpecPipeline == PipelineSpecInit /\ [][ApiNext]_vars

\* The requests and batch jobs of the API, each running its pipeline
ApiSpecInit ==
    ApiInit
    /\ AllIdleExcept("api")
SpecApi == ApiSpecInit /\ [][ApiNext]_vars

\* Two calls of get_pmcid_from_pmid for the same identifiers
RepeatSpecInit ==
    RepeatInit
    /\ AllIdleExcept("resolver")
SpecRepeat == RepeatSpecInit /\ [][RepeatNext]_vars

\* One call of get_pmcid_from_pmid with a cache file on the disk
ResolverSpecInit ==
    ResolverInit
    /\ AllIdleExcept("resolver")
SpecResolver == ResolverSpecInit /\ [][ResolverNext]_vars

\* Lookups of supplements, one after the other
SupplementSpecInit ==
    SupplementInit
    /\ AllIdleExcept("supplement")
SpecSupplement == SupplementSpecInit /\ [][SupplementNext]_vars

\* Calls for different identifiers running at once
CallsSpecInit == CallsInit /\ AllIdleExcept("calls")
SpecCalls == CallsSpecInit /\ [][CallsNext]_vars

\* A batch job from its submission on, polled at any time
JobsSpecInit == JobsInit /\ AllIdleExcept("jobs")
SpecJobs == JobsSpecInit /\ [][JobsNext]_vars

\* The same with every task of the event loop run
SpecJobsFair == SpecJobs /\ JobsFairness

\* Calls of the downloader on the directories it finds
DownloaderSpecInit == DownloaderInit /\ AllIdleExcept("downloader")
SpecDownloader == DownloaderSpecInit /\ [][DownloaderNext]_vars

\* add_supplements_to_existing run again on what it left
RunsSpecInit == RunsInit /\ AllIdleExcept("downloader")
SpecRuns == RunsSpecInit /\ [][AddSupplementsToExisting]_vars

\* ------------------------------------------- what the source table says

\* The columns a source cell spans, read off its colspan attribute
SourceSpan(cell) ==
    IF "colspan" \notin DOMAIN cell.attrs THEN 1
    ELSE CASE cell.attrs["colspan"] = <<"1">> -> 1
           [] cell.attrs["colspan"] = <<"2">> -> 2
           [] cell.attrs["colspan"] = <<"3">> -> 3
           [] OTHER -> 0

\* The cell's visible text has no character but whitespace
SourceEmpty(cell) == \A i \in 1..Len(cell.text) : cell.text[i] \in Whitespace

\* The text the grid holds for a source cell: pipes escaped, empty as " "
SourceGridText(cell) ==
    CASE cell.text = <<"a", "|", "b">> -> <<"a", "\\", "|", "b">>
      [] SourceEmpty(cell) -> <<" ">>
      [] OTHER -> cell.text

\* The source cell is a number: digits with "." and "-"
SourceNumeric(cell) == cell.text = <<"-", "1", ".", "5">>

RECURSIVE SourceWidth(_)
\* The width of a source row after colspan expansion
SourceWidth(row) ==
    IF row = <<>> THEN 0 ELSE SourceSpan(Head(row)) + SourceWidth(Tail(row))

\* The largest width over the source rows
SourceMaxWidth(rows) ==
    MaxLen([k \in 1..Len(rows) |-> Repeat(<<>>, SourceWidth(rows[k]))])

\* The grid column where the j-th cell of a source row starts
SourceColumn(row, j) == 1 + SourceWidth(SubSeq(row, 1, j - 1))

RECURSIVE SplitPipes(_, _)
\* The segments of a rendered line between its unescaped pipes
SplitPipes(line, cur) ==
    IF line = <<>> THEN <<cur>>
    ELSE IF Head(line) = "\\" /\ Len(line) >= 2
         THEN SplitPipes(Tail(Tail(line)), cur \o SubSeq(line, 1, 2))
    ELSE IF Head(line) = "|" THEN <<cur>> \o SplitPipes(Tail(line), <<>>)
    ELSE SplitPipes(Tail(line), cur \o <<Head(line)>>)

\* The cells a reader of the markdown finds in a rendered line: the
\* segments between the pipes, without the space on either side
LineCells(line) ==
    LET segs == SplitPipes(line, <<>>)
    IN  [k \in 1..(Len(segs) - 2) |->
            SubSeq(segs[k + 1], 2, Len(segs[k + 1]) - 1)]

\* The rendered line of the r-th collected row
LineOfRow(loc, r) ==
    IF loc.kind = "generic" THEN loc.lines[r + 2]
    ELSE IF r = 1 THEN loc.lines[1] ELSE loc.lines[r + 1]

\* The grid cells a source row gives before padding: for each cell its
\* text, then an empty placeholder for each further column it spans
SourceRowCells(row) ==
    Concat([j \in 1..Len(row) |->
        <<SourceGridText(row[j])>> \o Repeat(<<>>, SourceSpan(row[j]) - 1)])

\* ------------------------------------------------------------- the claims

\* C4: for a table with at least one row, the header, the separator and
\* every data row of the rendered grid have the same number of cells, the
\* largest width of a collected source row after colspan expansion; the
\* reader of the rendered lines counts that many cells in each line.
TableColumnInvariant ==
    (t_pc = "returned" /\ t_shape.rows # <<>>) =>
        LET w == SourceMaxWidth(t_shape.rows)
        IN  /\ Len(t_loc.header) = w
            /\ Len(t_loc.separator_cols) = w
            /\ Len(t_loc.emitted) \in {Len(t_shape.rows) - 1, Len(t_shape.rows)}
            /\ \A k \in 1..Len(t_loc.emitted) : Len(t_loc.emitted[k]) = w
            /\ Len(t_loc.lines) = 2 + Len(t_loc.emitted)
            /\ w >= 1 => \A k \in 1..Len(t_loc.lines) :
                            Len(LineCells(t_loc.lines[k])) = w

\* A converted table whose rows have different widths, one of them by a
\* colspan, so that padding happened
TableColumnWitness ==
    /\ t_pc = "returned"
    /\ Len(t_shape.rows) = 2
    /\ SourceWidth(t_shape.rows[1]) = 1
    /\ SourceWidth(t_shape.rows[2]) = 3
    /\ Len(t_shape.rows[2]) < 3

\* C8: before padding, a source cell with colspan k >= 1 gives its row
\* exactly k consecutive grid cells, its text and k - 1 empty placeholders,
\* and a cell without the attribute gives exactly one.
ColspanExpansion ==
    t_pc = "returned" =>
        /\ Len(t_loc.row_data) = Len(t_shape.rows)
        /\ \A r \in 1..Len(t_shape.rows) :
                t_loc.row_data[r] = SourceRowCells(t_shape.rows[r])

\* A converted row with a cell of colspan 3 followed by a cell of no colspan
ColspanWitness ==
    /\ t_pc = "returned"
    /\ \E r \in 1..Len(t_shape.rows) :
        /\ Len(t_shape.rows[r]) = 2
        /\ SourceSpan(t_shape.rows[r][1]) = 3
        /\ "colspan" \notin DOMAIN t_shape.rows[r][2].attrs
        /\ Len(t_loc.row_data[r]) = 4

\* C9: a source cell whose cleaned text is empty is a single space in its
\* grid position of the rendered line, in header rows and body rows alike.
EmptyCellIsSpace ==
    t_pc = "returned" =>
        \A r \in 1..Len(t_shape.rows) : \A j \in 1..Len(t_shape.rows[r]) :
            SourceEmpty(t_shape.rows[r][j]) =>
                LineCells(LineOfRow(t_loc, r))
                    [SourceColumn(t_shape.rows[r], j)] = <<" ">>

\* A converted table with an empty cell in its header row and another in a
\* body row
EmptyCellWitness ==
    /\ t_pc = "returned"
    /\ t_shape.nhead = 1
    /\ Len(t_shape.rows) = 2
    /\ \E j \in 1..Len(t_shape.rows[1]) : SourceEmpty(t_shape.rows[1][j])
    /\ \E j \in 1..Len(t_shape.rows[2]) : SourceEmpty(t_shape.rows[2][j])

\* The decimal numeral of a number below 100
Numeral(n) ==
    IF n < 10 THEN <<Digit(n)>> ELSE <<Digit(n \div 10), Digit(n % 10)>>

\* The labels "Category", "Value 1", "Value 2", ... for w columns
SynthLabels(w) ==
    [i \in 1..w |-> IF i = 1 THEN <<"Category">>
                    ELSE <<"Value", " ">> \o Numeral(i - 1)]

\* The table has no header group with a row in it
NoHeaderGroup == ~t_shape.thead \/ t_shape.nhead = 0

\* Every cell of the first source row is a number or empty
FirstRowNumeric ==
    /\ t_shape.rows # <<>>
    /\ \A j \in 1..Len(t_shape.rows[1]) :
        SourceNumeric(t_shape.rows[1][j]) \/ SourceEmpty(t_shape.rows[1][j])

\* C10: a table without an explicit header group whose first collected row
\* holds only numeric-looking or empty cells is rendered under the header
\* "Category", "Value 1", "Value 2", ..., one label per column, and every
\* collected row, the first included, is rendered as a data row.
HeaderSynthesis ==
    (t_pc = "returned" /\ NoHeaderGroup /\ FirstRowNumeric) =>
        LET w == SourceMaxWidth(t_shape.rows)
        IN  /\ t_loc.header = SynthLabels(w)
            /\ Len(t_loc.lines) = Len(t_shape.rows) + 2
            /\ \A r \in 1..Len(t_shape.rows) :
                t_loc.emitted[r] = pad_row(SourceRowCells(t_shape.rows[r]), w)
            /\ w >= 1 =>
                /\ LineCells(t_loc.lines[1]) = SynthLabels(w)
                /\ \A r \in 1..Len(t_shape.rows) :
                    LineCells(t_loc.lines[r + 2]) =
                        SourceRowCells(t_shape.rows[r])
                        \o Repeat(<<>>, w - SourceWidth(t_shape.rows[r]))

\* A converted table without header group, two rows, the first a number
\* and an empty cell, three columns wide
HeaderSynthesisWitness ==
    /\ t_pc = "returned"
    /\ ~t_shape.thead
    /\ Len(t_shape.rows) = 2
    /\ Len(t_shape.rows[1]) = 2
    /\ SourceNumeric(t_shape.rows[1][1])
    /\ SourceEmpty(t_shape.rows[1][2])
    /\ SourceMaxWidth(t_shape.rows) >= 3
    /\ t_loc.kind = "generic"


\* ------------------------------------- what the table of row groups says

\* The number of the child of the table that holds its i-th row
GroupOfRow(items, i) ==
    CHOOSE k \in 1..Len(items) :
        RowsBefore(items, k) < i /\ i <= RowsBefore(items, k + 1)

\* The rows of the table, in document order, whose group has one of the tags
RowsIn(items, tags) ==
    LET total == RowsBefore(items, Len(items) + 1)
    IN  InOrder(1, total,
                {i \in 1..total : items[GroupOfRow(items, i)].tag \in tags})

\* The rows of the first body group of the table, in document order
FirstBodyRows(items) ==
    LET k == CHOOSE k \in 1..Len(items) :
                /\ items[k].tag = "tbody"
                /\ \A j \in 1..(k - 1) : items[j].tag # "tbody"
    IN  [j \in 1..items[k].n |-> RowsBefore(items, k) + j]

\* The rows collected from a table without a row in a header group: those
\* of the body group when there is one, else every row
RowsCollected(items) ==
    IF \E k \in 1..Len(items) : items[k].tag = "tbody"
    THEN FirstBodyRows(items)
    ELSE RowsIn(items, {"thead", "tbody", "tfoot", "tr"})

\* The rendered lines show this header and, below the separator, these rows
Rendered(lines, header, rows, numeric) ==
    /\ Len(lines) = 2 + Len(rows)
    /\ LineCells(lines[1]) = <<header>>
    /\ \A k \in 1..Len(rows) :
        LineCells(lines[k + 2]) = <<RowText(rows[k], numeric)>>

\* C11: when the table has a header group with a row, the first row of the
\* header group is the rendered header and the data rows are the further
\* header rows followed by every other row of the table in document order,
\* each once; when it has none, the first collected row is the header if it
\* has a cell that is neither numeric nor empty, and else the header is
\* synthesized and every collected row is a data row.
HeaderPriority ==
    t_pc = "returned" =>
        LET items == t_shape.items
            numeric == t_shape.numeric
            head == RowsIn(items, {"thead"})
            rest == RowsIn(items, {"tbody", "tfoot", "tr"})
            coll == RowsCollected(items)
        IN  IF head # <<>>
            THEN Rendered(t_loc.lines, RowText(head[1], numeric),
                          Tail(head) \o rest, numeric)
            ELSE IF coll = <<>> THEN t_loc.lines = <<>>
            ELSE IF ~numeric
            THEN Rendered(t_loc.lines, RowText(coll[1], numeric),
                          Tail(coll), numeric)
            ELSE Rendered(t_loc.lines, <<"Category">>, coll, numeric)

\* ------------------------------------------ what the reference's links say

\* The spellings of a label in capitals and small letters
Spellings(label) ==
    CASE label = "DOI" -> {<<"DOI">>, <<"doi">>, <<"Doi">>}
      [] label = "PMC" -> {<<"PMC">>, <<"pmc">>}
      [] label = "PubMed" -> {<<"PubMed">>, <<"pubmed">>, <<"PUBMED">>}

\* The host of each label
HostOf(label) ==
    CASE label = "DOI" -> "doi.org"
      [] label = "PMC" -> "pmc.ncbi.nlm.nih.gov"
      [] label = "PubMed" -> "pubmed.ncbi.nlm.nih.gov"

\* The link matches the rule of a label: its address holds the host, or its
\* text is the label, written exactly or in any letter case
Matches(link, label, exactly) ==
    \/ \E k \in 1..Len(link.href) : link.href[k] = HostOf(label)
    \/ IF exactly THEN link.text = <<label>> ELSE link.text \in Spellings(label)

\* The label the first matching rule gives the link, its own text when none
LabelOf(link, exactly) ==
    IF Matches(link, "DOI", exactly) THEN <<"DOI">>
    ELSE IF Matches(link, "PMC", exactly) THEN <<"PMC">>
    ELSE IF Matches(link, "PubMed", exactly) THEN <<"PubMed">>
    ELSE link.text

\* The links are emitted in document order, each under its label
LinksLabelled(exactly) ==
    u_pc = "returned" =>
        /\ Len(u_out.link_parts) = Len(u_in)
        /\ \A k \in 1..Len(u_in) :
            u_out.link_parts[k] =
                <<"[">> \o LabelOf(u_in[k], exactly) \o <<"]", "(">>
                \o u_in[k].href \o <<")">>
        /\ u_out.ref_text =
            <<"1", ".", " ", "c">>
            \o (IF u_in = <<>> THEN <<>>
                ELSE <<" ", " ">> \o Join(<<" ", "|", " ">>, u_out.link_parts))

\* C12 as stated: each link of a reference is labelled by the first matching
\* rule in the order DOI, PMC, PubMed, a rule matching when the address holds
\* its host or the text is its label; a link matching none is labelled with
\* its own text; the links are emitted in document order.
ReferenceLabelsExact == LinksLabelled(TRUE)

\* C12 amended: the same, the text compared with the label without regard to
\* letter case.
ReferenceLabels == LinksLabelled(FALSE)

\* A processed reference whose first link has both the DOI host and the PMC
\* host and the text "PubMed", and whose second link matches no rule
ReferenceLabelsWitness ==
    /\ u_pc = "returned"
    /\ Len(u_in) = 2
    /\ u_in[1].href = <<"https://", "pmc.ncbi.nlm.nih.gov", "/", "doi.org">>
    /\ u_in[1].text = <<"PubMed">>
    /\ u_in[2].href = <<"https://", "example.org", "/", "x">>
    /\ u_in[2].text = <<"Article">>
    /\ u_out.link_parts[2] =
        <<"[", "Article", "]", "(", "https://", "example.org", "/", "x", ")">>

\* ------------------------------------------- what the joined fragments say

\* The fragments that are not empty, two newlines between them
Joined(parts) ==
    LET nonempty(p) == p # <<>>
    IN  Join(<<"\n", "\n">>, SelectSeq(parts, nonempty))

\* Three newlines in a row start at position i of s
TripleAt(s, i) ==
    i + 2 <= Len(s) /\ s[i] = "\n" /\ s[i + 1] = "\n" /\ s[i + 2] = "\n"

RECURSIVE CapRuns(_)
\* s with every run of three or more newlines cut down to two
CapRuns(s) ==
    IF s = <<>> THEN <<>>
    ELSE IF TripleAt(s, 1) THEN CapRuns(Tail(s))
    ELSE <<Head(s)>> \o CapRuns(Tail(s))

\* C13: the returned string never holds three consecutive newlines; it is
\* the joined fragments with every run of three or more newlines cut down to
\* exactly two, up to the whitespace at its two ends.
NoTripleNewline ==
    u_pc = "returned" =>
        /\ \A i \in 1..Len(u_out) : ~TripleAt(u_out, i)
        /\ Strip(u_out) = Strip(CapRuns(Joined(u_in)))

\* A join whose fragments put four newlines between two texts
NoTripleNewlineWitness ==
    /\ u_pc = "returned"
    /\ Len(u_in) = 3
    /\ u_in[2] = <<"a", "\n">>
    /\ u_in[3] = <<"\n", "a">>
    /\ \E i \in 1..Len(Joined(u_in)) : TripleAt(Joined(u_in), i)

\* C14: the returned string ends with one newline and the character before
\* it is not whitespace, whatever the fragments end with.
SingleTrailingNewline ==
    u_pc = "returned" =>
        /\ Len(u_out) >= 2
        /\ u_out[Len(u_out)] = "\n"
        /\ u_out[Len(u_out) - 1] \notin Whitespace

\* A join whose last fragment is blank lines after a fragment that ends
\* with a space
SingleTrailingNewlineWitness ==
    /\ u_pc = "returned"
    /\ Len(u_in) = 3
    /\ u_in[2] = <<"a", " ">>
    /\ u_in[3] = <<"\n", "\n">>

\* --------------------------------------------- what the document should give

\* The lines of a text: what stands between its newlines
LinesOf(md) ==
    LET newline(i) == md[i] = "\n"
        pos == SelectSeq([i \in 1..Len(md) |-> i], newline)
    IN  [k \in 1..(Len(pos) + 1) |->
            SubSeq(md, IF k = 1 THEN 1 ELSE pos[k - 1] + 1,
                       IF k > Len(pos) THEN Len(md) ELSE pos[k] - 1)]

\* The places of a line among the lines
LineAt(lines, line) == {k \in 1..Len(lines) : lines[k] = line}

\* The lines that open the fragments of the documents, and those the body and
\* the reference list alone give
AbstractHeading == <<"#", "#", " ", "Abstract">>
BodyHeading == <<"#", "#", " ", "Results", " ", "1">>
BodyParagraph == <<"Finding", " ", "1">>
ReferencesHeading == <<"#", "#", " ", "References">>
ReferenceLine ==
    <<"1", ".", " ", "Source", " ", "1", " ", " ", "[", "DOI", "]", "(",
      "https", ":", "/", "/", "doi.org", "/", "1", ")">>

\* C15: the document takes the scanned path if and only if it has a
\* scanned-pages section, the ncbi_type=scanpage meta tag or a fig-scanned
\* figure, any one of them alone; on the scanned path the output holds the
\* advisory note and nothing of the body or the reference list, and off it
\* the output holds no note and holds the body and the references it has.
ScannedRouting ==
    u_pc = "returned" =>
        LET signal == u_in.section \/ u_in.meta = "scanpage" \/ u_in.figure
            lines == LinesOf(u_out.markdown.v)
        IN  /\ ~u_out.markdown.raised
            /\ u_out.is_scanned = signal
            /\ signal =>
                /\ LineAt(lines, scanned_note) # {}
                /\ LineAt(lines, BodyHeading) = {}
                /\ LineAt(lines, BodyParagraph) = {}
                /\ LineAt(lines, ReferencesHeading) = {}
                /\ LineAt(lines, ReferenceLine) = {}
            /\ ~signal =>
                /\ LineAt(lines, scanned_note) = {}
                /\ u_in.body <=> LineAt(lines, BodyHeading) # {}
                /\ u_in.references <=> LineAt(lines, ReferenceLine) # {}

\* A converted document whose only signal is the fig-scanned figure, with a
\* body and a reference list that the output leaves out
ScannedRoutingWitness ==
    /\ u_pc = "returned"
    /\ u_in.figure /\ ~u_in.section /\ u_in.meta = "article"
    /\ u_in.body /\ u_in.references
    /\ u_out.is_scanned

\* The keys whose source the document of the shape carries
KeysFound(sh) ==
    (IF sh.title # "none" THEN {"title"} ELSE {})
    \cup (IF sh.journal THEN {"journal"} ELSE {})
    \cup (IF sh.pmcid # "none" THEN {"pmcid"} ELSE {})

\* The lines that open with the label of a metadata line
LabelLines(lines, label) ==
    {k \in 1..Len(lines) : IsPrefix(<<"**", label, ":", "**">>, lines[k])}

\* C17: besides the list of authors, the metadata record holds exactly the
\* keys whose source the document carries; a document without article
\* identifier has no pmcid entry, and its metadata block has no PMCID line
\* and no URL line.
MetadataKeysAbsent ==
    u_pc = "returned" =>
        LET lines == LinesOf(u_out.markdown.v)
        IN  /\ u_out.metadata.keys \ {"authors"} = KeysFound(u_in)
            /\ u_in.pmcid = "none" =>
                /\ "pmcid" \notin u_out.metadata.keys
                /\ LabelLines(lines, "PMCID") = {}
                /\ LabelLines(lines, "URL") = {}

\* The line is there once, after the line at place m, and one blank line
\* parts it from the text before it
OpensFragmentAfter(lines, line, m) ==
    \E k \in 3..Len(lines) :
        /\ LineAt(lines, line) = {k}
        /\ k > m
        /\ lines[k - 1] = <<>>
        /\ lines[k - 2] # <<>>

\* The place of the last of the lines that is there, 0 when none is
LastPlace(lines, given) ==
    LET places == UNION {LineAt(lines, given[j]) : j \in 1..Len(given)}
    IN  IF places = {} THEN 0
        ELSE CHOOSE k \in places : \A j \in places : j <= k

\* C18: for a document that is not scanned the output holds the metadata
\* block, then the abstract, the main content and the references, each there
\* exactly when the document has its source, each opening after the one
\* before it with exactly one blank line between them.
FragmentOrder ==
    (u_pc = "returned" /\ ~u_out.is_scanned) =>
        LET lines == LinesOf(u_out.markdown.v)
            MetadataHeading == <<"#", "#", " ", "Metadata">>
        IN  /\ \E m \in 1..Len(lines) : LineAt(lines, MetadataHeading) = {m}
            /\ IF u_in.abstract
               THEN OpensFragmentAfter(lines, AbstractHeading,
                        LastPlace(lines, <<MetadataHeading>>))
               ELSE LineAt(lines, AbstractHeading) = {}
            /\ IF u_in.body
               THEN OpensFragmentAfter(lines, BodyHeading,
                        LastPlace(lines, <<MetadataHeading, AbstractHeading>>))
               ELSE LineAt(lines, BodyHeading) = {}
            /\ IF u_in.references
               THEN OpensFragmentAfter(lines, ReferencesHeading,
                        LastPlace(lines, <<MetadataHeading, AbstractHeading,
                                           BodyHeading>>))
               ELSE LineAt(lines, ReferencesHeading) = {}

\* A converted article with an abstract, a body and a reference list, and
\* no scanned signal
FragmentOrderWitness ==
    /\ u_pc = "returned"
    /\ ~u_out.is_scanned
    /\ u_in.abstract /\ u_in.body /\ u_in.references
    /\ u_in.title = "page" /\ u_in.pmcid = "canonical"

\* ----------------------------------------- what the section headings say

\* The line is the title of the i-th section under n "#" characters
HeadingLine(line, i, n) == line = Repeat("#", n) \o <<" ">> \o HeadingTitle(i)

\* C16: the heading of every section is rendered, and each line that renders
\* it starts with exactly as many "#" as the level of the source heading,
\* h1 to h4, however deep the section is nested; no other line starts with
\* "#".
HeadingLevels ==
    b_pc = "returned" =>
        LET lines == LinesOf(b_out.v)
            levels == b_shape.levels
        IN  /\ \A i \in 1..Len(levels) :
                /\ \E k \in 1..Len(lines) : HeadingLine(lines[k], i, levels[i])
                /\ \A k \in 1..Len(lines), n \in 0..6 :
                    HeadingLine(lines[k], i, n) => n = levels[i]
            /\ \A k \in 1..Len(lines) :
                (lines[k] # <<>> /\ Head(lines[k]) = "#") =>
                    \E i \in 1..Len(levels) :
                        HeadingLine(lines[k], i, levels[i])

\* A rendered body of three sections nested in one another, the outermost
\* headed by an h4, the next by an h1, the innermost by an h3
HeadingLevelsWitness ==
    /\ b_pc = "returned"
    /\ b_shape.nested
    /\ b_shape.levels = <<4, 1, 3>>

\* ------------------------------------------- what the source body says

RECURSIVE SplitLines(_, _)
\* The lines of a markdown string
SplitLines(md, cur) ==
    IF md = <<>> THEN <<cur>>
    ELSE IF Head(md) = "\n" THEN <<cur>> \o SplitLines(Tail(md), <<>>)
    ELSE SplitLines(Tail(md), cur \o <<Head(md)>>)

\* The elements of the body that enclose its i-th element
BodyAncestors(sh, i) ==
    { j \in 1..(i - 1) : \A k \in (j + 1)..i : sh[k].depth > sh[j].depth }

\* The i-th element lies inside an abstract, reference-list or keyword section
InsideSkipped(sh, i) ==
    \E j \in BodyAncestors(sh, i) :
        sh[j].kind.class \cap {"abstract", "ref-list", "kwd-group"} # {}

\* How many lines of the output end with the text
TimesRendered(md, text) ==
    LET ls == SplitLines(md, <<>>)
    IN  Cardinality({ k \in 1..Len(ls) :
            /\ Len(ls[k]) >= Len(text)
            /\ SubSeq(ls[k], Len(ls[k]) - Len(text) + 1, Len(ls[k])) = text })

\* C6: every non-empty paragraph below the main article body that is not
\* inside an abstract, reference-list or keyword-group section appears in
\* the main-content output, whatever wrappers lie between it and the body.
NoContentDropped ==
    b_pc = "returned" =>
        \A i \in 1..Len(b_shape) :
            (b_shape[i].kind.tag = "p" /\ ~InsideSkipped(b_shape, i))
                => TimesRendered(b_out.v, BodyLabel(b_shape, i)) >= 1

\* C7: each heading and each paragraph of the main body is rendered at most
\* once: a nested subsection's content is emitted as part of its parent only.
RenderedAtMostOnce ==
    b_pc = "returned" =>
        \A i \in 1..Len(b_shape) :
            b_shape[i].kind.tag \in {"p", "h2"}
                => TimesRendered(b_out.v, BodyLabel(b_shape, i)) <= 1


\* ------------------------------------------- what the calls should return

\* Each document with what convert_html gives for it when the call runs
\* alone on a converter of its own
Conversions == {<<html, convert_html(html)>> : html \in Documents}

\* The k-th call that ended gave what its input gives when converted alone
AsAlone(k) == <<c_log[k].html, c_log[k].out>> \in Conversions

\* C1: when calls of convert_html run concurrently on the one shared
\* converter, each returns exactly the markdown it returns when run alone on
\* its own input.
ConcurrentCallsIsolated == \A k \in 1..Len(c_log) : AsAlone(k)

\* C3: sequential calls of convert_html are deterministic and history-free:
\* the same HTML converted again by the same converter, whatever was
\* converted in between, gives the identical outcome, that of the input alone.
SequentialCallsDeterministic ==
    \A i \in 1..Len(c_log) :
        /\ AsAlone(i)
        /\ \A j \in 1..Len(c_log) :
            c_log[i].html = c_log[j].html => c_log[i].out = c_log[j].out

\* A document converted, another converted after it, the first converted again
SequentialCallsWitness ==
    /\ Len(c_log) = 3
    /\ c_log[1].html = c_log[3].html
    /\ c_log[2].html # c_log[1].html
    /\ ~c_log[1].out.raised
    /\ ~c_log[2].out.raised
    /\ c_log[2].out # c_log[1].out

\* C5: convert_html is total on parsed input: no defect inside a table,
\* figure, reference, abstract or metadata element makes it raise.
ConvertHtmlTotal == \A k \in 1..Len(c_log) : ~c_log[k].out.raised


\* ------------------------------------------- what the gate should bound

\* The collaborator calls in flight: identifier resolutions, HTML fetches
\* and supplement fetches handed to the executor and not yet returned
InFlight == {k \in Tasks : a_pc[k] \in {"resolving", "fetching", "supplementing"}}

\* The pipelines waiting at the semaphore
WaitingAtGate ==
    {k \in Tasks : a_pc[k] \in {"wait_resolve", "wait_fetch", "wait_supplement"}}

\* C2: at every moment at most 3 outbound collaborator calls issued by the
\* API (identifier resolution, HTML fetch, supplement fetch) are in flight,
\* however many requests and batch jobs are active.
OutboundCallsBounded == Cardinality(InFlight) <= 3

\* Three calls in flight, one of each kind, and a further pipeline held back
OutboundCallsWitness ==
    /\ Cardinality(InFlight) = 3
    /\ WaitingAtGate # {}
    /\ \E i, j, k \in InFlight :
        a_pc[i] = "resolving" /\ a_pc[j] = "fetching" /\ a_pc[k] = "supplementing"

\* ------------------------------------------- what the pipelines should do

\* The steps of a pipeline of the kind, in their order
StepsOf(kind) ==
    IF kind = "pmid" THEN <<"resolve", "fetch", "convert", "supplement">>
    ELSE <<"fetch", "convert", "supplement">>

\* The calls of pipeline k that returned
CallsReturned(k) == SelectSeq(a_trace[k].steps, LAMBDA e : e.step # "return")

\* The call pipeline k has issued and not seen return
CallIssued(k) ==
    CASE a_pc[k] = "resolving" -> <<"resolve">>
      [] a_pc[k] = "fetching" -> <<"fetch">>
      [] a_pc[k] = "converting" -> <<"convert">>
      [] a_pc[k] = "supplementing" -> <<"supplement">>
      [] OTHER -> <<>>

\* The steps pipeline k has started
StepsStarted(k) ==
    [i \in 1..Len(CallsReturned(k)) |-> CallsReturned(k)[i].step] \o CallIssued(k)

\* The call gave what the next step needs: a PMCID, an HTML string, a
\* markdown string; the supplement fetch has no next step
Succeeded(call) ==
    CASE call.step \in {"resolve", "fetch"} -> call.out # None
      [] call.step = "convert" -> call.out # "raised"
      [] OTHER -> TRUE

\* The ConvertResult pipeline k returned
ResultOf(k) == a_trace[k].steps[Len(a_trace[k].steps)].out

TrimmedPmids == {Strip(r_args.pmids[i]) : i \in 1..Len(r_args.pmids)}

\* The identifier has an entry in the cache file the call found
HasEntry(file, id) == \E key \in DOMAIN file : Strip(key) = id

\* That entry
EntryOf(file, id) == file[CHOOSE key \in DOMAIN file : Strip(key) = id]

\* The entry has a timestamp that is a date, and at the time of the call
\* its 30 days have not passed
Younger(entry) == entry.timestamp.form = "iso" /\ StartTime < entry.timestamp.t + 30

\* The identifier went out in a request
Requested(id) ==
    \E n \in 1..Len(r_sent) : \E j \in 1..Len(r_sent[n].ids) : r_sent[n].ids[j] = id

\* The call has raised, or has gone through its identifiers and its
\* requests and has the cache file still to write
LookupEnded ==
    \/ r_pc = "raised"
    \/ r_pc = "fetching" /\ r_loc.i >= Len(r_loc.pmids_to_fetch)

\* What the claim asks of the identifier id, which has the entry found in
\* the cache file
Answered(id, found) ==
    /\ r_pc # "raised"
    /\ IF Younger(found)
       THEN /\ id \in DOMAIN r_loc.results
            /\ r_loc.results[id] = (IF found.pmcid = "" THEN None ELSE found.pmcid)
            /\ ~Requested(id)
       ELSE /\ Requested(id)
            /\ r_loc.cache[id] # found
            /\ r_loc.cache[id].timestamp.form = "iso"
            /\ r_loc.cache[id].timestamp.t >= StartTime

\* C20: with caching on, an identifier that after trimming has a cache
\* entry younger than the 30 days is answered with the cached value and is
\* in no request sent; an identifier whose entry is at or past its expiry,
\* or has no valid timestamp, is in a request sent and its entry is replaced
\* by one written at the time of the fetch, which the cache file holds once
\* the call has returned.
CacheContract ==
    /\ LookupEnded =>
        \A id \in TrimmedPmids : HasEntry(r_file, id) => Answered(id, EntryOf(r_file, id))
    /\ r_pc = "returned" =>
        \A id \in TrimmedPmids : Requested(id) =>
            /\ id \in DOMAIN r_file
            /\ r_file[id] = r_loc.cache[id]
            /\ r_file[id].timestamp.form = "iso" /\ r_file[id].timestamp.t >= StartTime

\* ------------------------------------ what the supplement cache should answer

\* The cache entry holds text or not_available
Fetched(cache) == cache.kind \in {"text", "not_available"}

\* C21: with use_cache on, a lookup for an article whose cache entry holds
\* text or not_available sends no request, whichever of
\* fetch_bioc_supplement and format_supplement_as_markdown makes it; a
\* lookup that sends a request is one for an article not fetched before.
SupplementFromCache ==
    (s_last # <<>> /\ s_last.use_cache) => (s_last.requested <=> ~Fetched(s_last.cache))

\* ------------------------------------------- what the paragraph's anchor says

\* part occurs in s
Occurs(part, s) == \E i \in 1..(Len(s) - Len(part) + 1) : SubSeq(s, i, i + Len(part) - 1) = part

\* C29: the anchor of the paragraph, when it has an href, is rendered as
\* the markdown link [text](href), whether it is a child of the paragraph,
\* inside wrappers at any depth, or inside an italic, bold, subscript or
\* superscript element; without an href it is rendered as its text and no
\* link is written.
AnchorsKeepLinks ==
    (u_fn = "_process_paragraph" /\ u_pc = "returned") =>
        IF u_in.href # <<>>
        THEN Occurs(<<"[">> \o u_in.label \o <<"]", "(">> \o u_in.href \o <<")">>, u_out)
        ELSE Occurs(u_in.label, u_out) /\ ~Occurs(<<"]", "(">>, u_out)

\* AnchorsKeepLinks for the anchors outside formatting elements
AnchorsKeepLinksUnformatted ==
    (u_fn = "_process_paragraph" /\ u_pc = "returned" /\ u_in.format # "none")
        \/ AnchorsKeepLinks

\* ------------------------------------------- what the reference list says

\* C30: the citation text of an item without a <cite> holds none of the
\* visible text of the item's link, whether the link is a child of the item
\* or inside another element of it, and the k-th item of the list is the
\* entry numbered k.
CitationWithoutLinkText ==
    (u_fn = "_extract_references" /\ u_pc = "returned") =>
        /\ \A k \in 1..Len(u_in) : ~Occurs(u_in[k].text, u_out.cites[k])
        /\ \E lines \in {SelectSeq(LinesOf(u_out.markdown), LAMBDA l : l # <<>>)} :
            /\ Len(lines) = Len(u_in) + 1
            /\ \A k \in 1..Len(u_in) :
                IsPrefix(str(k) \o <<".", " ">> \o u_out.cites[k], lines[k + 1])

\* CitationWithoutLinkText for the lists whose links are children of their
\* items
CitationWithoutLinkTextDirect ==
    (u_fn = "_extract_references" /\ u_pc = "returned"
        /\ \E k \in 1..Len(u_in) : u_in[k].nest > 0)
        \/ CitationWithoutLinkText

\* ------------------------------------------- what a failed request leaves

\* The request went out in the call that is running
InThisCall(n) == r_sent[n].t >= r_loc.began

\* The n-th request holds the identifier
Holds(n, id) == \E j \in 1..Len(r_sent[n].ids) : r_sent[n].ids[j] = id

\* The n-th request failed and holds the identifier; with last, no later
\* request of its call holds the identifier too
FailedFor(n, id, last) ==
    /\ r_sent[n].failed /\ Holds(n, id)
    /\ last => ~\E m \in (n + 1)..Len(r_sent) :
                    Holds(m, id) /\ (InThisCall(m) <=> InThisCall(n))

\* The call has gone through its identifiers and its requests
LoopEnded == r_pc = "fetching" /\ r_loc.i >= Len(r_loc.pmids_to_fetch)

\* What the claim asks, of every failed request or of the last request
\* that holds the identifier
AbsentAfterFailure(last) ==
    LoopEnded =>
        /\ \A id \in TrimmedPmids : id \in DOMAIN r_loc.results
        /\ \A n \in 1..Len(r_sent), id \in TrimmedPmids :
            (InThisCall(n) /\ FailedFor(n, id, last)) =>
                /\ r_loc.results[id] = None
                /\ id \in DOMAIN r_loc.cache
                /\ r_loc.cache[id] =
                        [pmcid |-> None, timestamp |-> [form |-> "iso", t |-> r_sent[n].t]]
        /\ \A n \in 1..Len(r_sent), id \in TrimmedPmids :
            (~InThisCall(n) /\ FailedFor(n, id, last) /\ r_loc.began < r_sent[n].t + 30) =>
                /\ r_loc.results[id] = None
                /\ ~\E m \in 1..Len(r_sent) : InThisCall(m) /\ Holds(m, id)

\* C25 as stated: when the request for a batch fails, every identifier of
\* the batch is None in the map returned and is cached as None with the time
\* of the failure, and a later call within the expiry answers None for it
\* without a request; the map has an entry for every identifier asked for,
\* trimmed.
FailedBatchAbsentAlways == AbsentAfterFailure(FALSE)

\* C25 amended: the same of every failed request that is the last of its
\* call to hold the identifier; an identifier given twice that is also in a
\* later batch of the call has the outcome of that batch.
FailedBatchAbsent == AbsentAfterFailure(TRUE)

\* A later call within the expiry has answered None from the cache for an
\* identifier whose request failed in the call before
FailedBatchAbsentWitness ==
    /\ LoopEnded /\ ~r_args.later /\ r_sent # <<>>
    /\ \E n \in 1..Len(r_sent), id \in TrimmedPmids :
        /\ ~InThisCall(n) /\ FailedFor(n, id, TRUE) /\ r_loc.began < r_sent[n].t + 30
        /\ r_loc.results[id] = None
    /\ \A n \in 1..Len(r_sent) : ~InThisCall(n)

\* ------------------------------------ what concurrent calls leave on the disk

\* C26: after concurrent calls of get_pmcid_from_pmid for different
\* identifiers have all returned, the cache file holds the entry of each of
\* them.
NoLostUpdate ==
    (\A k \in Callers : p_pc[k] = "returned") =>
        \A k \in Callers : PmidOf(k) \in DOMAIN p_file

\* -------------------------------------------- what a poll of a job may see

\* The order of the states of a job
StatusRank(status) ==
    CASE status = "none" -> 0
      [] status = "pending" -> 1
      [] status = "running" -> 2
      [] status = "completed" -> 3

\* A record a poll may be answered is consistent with the submitted list
ConsistentRecord(job) ==
    job.status # "none" =>
        /\ job.status \in {"pending", "running", "completed"}
        /\ job.total = Len(j_ids)
        /\ job.completed_count \in 0..job.total
        /\ job.results.null <=> job.status # "completed"
        /\ ~job.results.null =>
            /\ Len(job.results.items) = job.total
            /\ \A i \in 1..job.total : job.results.items[i].id = j_ids[i]

\* Of two answers the later is no earlier in status or in count
NoEarlier(before, after) ==
    /\ StatusRank(before.status) <= StatusRank(after.status)
    /\ (before.status # "none") => before.completed_count <= after.completed_count

\* C23: every record a poll observes is consistent: status only advances
\* pending, running, completed; completed_count never decreases nor
\* exceeds total; results is non-null exactly when the status is completed,
\* and then holds total results, the i-th for the i-th submitted identifier.
JobRecordConsistent ==
    /\ ConsistentRecord(j_job)
    /\ \A n \in 1..Len(j_polls) :
        /\ ConsistentRecord(j_polls[n])
        /\ NoEarlier(j_polls[n], j_job)
        /\ \A m \in 1..(n - 1) : NoEarlier(j_polls[m], j_polls[n])

\* Polls saw a job of two different identifiers running with one result
\* counted and then completed with both
JobRecordConsistentWitness ==
    /\ Len(j_polls) = 2
    /\ j_polls[1].status = "running" /\ j_polls[1].completed_count = 1
    /\ j_polls[2].status = "completed" /\ j_polls[2].completed_count = 2
    /\ Len(j_polls[2].results.items) = 2
    /\ j_ids[1] # j_ids[2]

\* C24: every submitted batch job eventually reaches the status completed,
\* whatever the outcome of each identifier's conversion, a raise included.
JobCompletes == (j_job.status = "pending") ~> (j_job.status = "completed")

\* ------------------------------------------- what the downloader should write

\* The stub block, without the blank line before it and the newline after
StubBlock == supplement_header \o <<"\n", "\n", "No supplementary materials found.">>

\* How often part stands in s
CountParts(s, part) ==
    Cardinality({i \in 1..(Len(s) - Len(part) + 1) : SubSeq(s, i, i + Len(part) - 1) = part})

\* The markdown is the converted text, stripped at its end, then a blank
\* line, one block and a newline: the supplement section when there was one
\* to fetch, the stub otherwise
EndsWithBlock(p) ==
    /\ p.markdown = RStrip(p.converted) \o <<"\n", "\n">>
                    \o (IF p.found THEN p.supplement ELSE StubBlock) \o <<"\n">>
    /\ CountParts(SubSeq(p.markdown, Len(RStrip(p.converted)) + 1, Len(p.markdown)),
                  supplement_header) = 1

\* The files a call wrote or rewrote
Written == {name \in DOMAIN d_md : name \notin DOMAIN d_call.before
                                   \/ d_md[name] # d_call.before[name]}

\* C22: every full-text markdown the downloader produces, returned by
\* single_pmcid_to_markdown or single_pmid_to_markdown or written by
\* local_html_to_markdown, ends with exactly one appended supplementary
\* block: the fetched supplement when one is available, the stub "No
\* supplementary materials found." otherwise.
SupplementBlockAppended ==
    /\ \A p \in d_call.produced : EndsWithBlock(p)
    /\ (d_call.fn \in {"single_pmcid_to_markdown", "single_pmid_to_markdown"}
            /\ d_call.produced # {})
        => /\ ~d_call.out.none
           /\ \E p \in d_call.produced : d_call.out.v = p.markdown
    /\ d_call.fn = "single_pmcid_to_markdown"
        => (d_call.out.none <=> d_call.produced = {})
    /\ d_call.fn = "local_html_to_markdown"
        => /\ \A name \in Written : \E p \in d_call.produced : d_md[name] = p.markdown
           /\ \A p \in d_call.produced : \E name \in DOMAIN d_md : d_md[name] = p.markdown

\* local_html_to_markdown wrote a file with a fetched supplement, and
\* single_pmcid_to_markdown returned one with the stub
SupplementBlockAppendedWitness ==
    \/ /\ d_call.fn = "local_html_to_markdown"
       /\ \E name \in Written : \E p \in d_call.produced : p.found /\ d_md[name] = p.markdown
    \/ /\ d_call.fn = "single_pmcid_to_markdown"
       /\ \E p \in d_call.produced : ~p.found /\ d_call.out.v = p.markdown

\* pmids_to_markdown ran with overwrite off
RanWithoutOverwrite == d_call.fn = "pmids_to_markdown" /\ ~d_call.overwrite

\* Every file the markdown directory held before the call is as it was
MarkdownAsBefore ==
    \A name \in DOMAIN d_call.before :
        name \in DOMAIN d_md /\ d_md[name] = d_call.before[name]

\* The files of save_dir/html are named as pmcids_to_html names them:
\* ".html" at the end of the name and nowhere else in it
HtmlNamedByPmcid ==
    \A h \in DOMAIN d_html :
        endswith(h, ".html") /\ ReplaceAtom(h, ".html", <<>>) = SubSeq(h, 1, Len(h) - 1)

SupplementsAddedOnce ==
    (/\ d_call.fn = "add_supplements_to_existing" /\ ~d_call.overwrite
     /\ d_call.prev.fn = "add_supplements_to_existing" /\ ~d_call.prev.overwrite)
        => d_md = d_call.before

====
